---- MODULE Spec2Model ----
(***************************************************************************)
(* Durable task queue and worker pool of the document-conversion service: *)
(* the SQLite task store (app/api/database.py), the queue workers, the    *)
(* worker pool and its reaper (app/services/queue_worker.py) and the      *)
(* upload route with its background conversion (app/api/routes.py).       *)
(*                                                                         *)
(* The store is the committed content of the tasks table.  Every store    *)
(* operation opens its own connection; a statement followed by commit is  *)
(* one step of the model (SQLite serialises writers), and the awaits      *)
(* around it (connect, PRAGMAs, close) are the places where other         *)
(* coroutines run.  A row carries the columns a specification tracks:     *)
(* updated_at, downloaded and original_filename are carried by the rows   *)
(* of the direct store calls of SpecRow only.                             *)
(***************************************************************************)
EXTENDS Integers, FiniteSets, Sequences, TLC

\* ------------------------------------------------------------------ bounds
NumWorkers == 2          \* workers of the pool: worker_1 .. worker_N
NumSeeded == 1           \* rows the store holds when the pool starts
MaxRows == 3             \* rows of the store the concurrent claimants run against
NumQueued == 2           \* tasks waiting in the queue the workers drain
MaxStoreRows == 2        \* rows of the store the direct store operations run against
NumUploads == 2          \* uploads accepted by convert_document
MaxTime == 3             \* the clock stops advancing here
MaxFaults == 1           \* store operations that may raise in one behaviour
NumOfficeWorkers == 3    \* workers that are at the conversion step of a task
MaxInits == 2            \* init_db calls on one database file
MaxCalls == 2            \* direct calls of store operations in one behaviour
MaxStarts == 2           \* QueueWorkerPool.start calls on one pool object

\* ------------------------------------------------- program constants (scaled)
StaleTimeout == 1        \* stale_timeout, in clock ticks
StaleCheckInterval == 1  \* stale_check_interval, in clock ticks
MaxRetries == 3          \* max_retries of _with_retry
OfficeConcurrency == 2   \* asyncio.Semaphore(2) of QueueWorkerPool
TargetSchemaVersion == 2 \* TARGET_SCHEMA_VERSION of run_migrations

NULL == 0 - 1            \* SQL NULL / Python None in an integer column
NoWorker == 0            \* worker_id IS NULL
NoTask == 0              \* no task id (None)
NoPath == 0              \* result_path IS NULL
NoHash == 0              \* file_hash IS NULL
EmptyPath == 0 - 2       \* result_path = '' (the empty string)
NoUrl == 0               \* s3_url IS NULL

Workers == 1..NumWorkers
OfficeWorkers == 1..NumOfficeWorkers
Seeded == 1..NumSeeded
Rows == 1..MaxRows
Uploads == (NumSeeded + 1)..(NumSeeded + NumUploads)
Hashes == {1}

VARIABLES
    tasks,        \* the tasks table: id -> row (committed state)
    dblock,       \* connection holding SQLite's write lock in a BEGIN IMMEDIATE
    supports_returning, \* TaskDatabase._supports_returning
    now,          \* datetime.now().timestamp()
    faults,       \* store operations that have raised so far
    pc,           \* per worker: position in QueueWorker.start / _process_task
    running,      \* per worker: QueueWorker.running
    current_task_id, \* per worker: QueueWorker.current_task_id
    task,         \* per worker: the dict get_next_queued_task returned
    sel,          \* per worker: id selected inside the fallback transaction
    cached,       \* per worker: what the cache recheck read (cached_task, os.path.exists)
    q0,           \* history: rows that were QUEUED when the callers started
    reaper_pc,    \* position of QueueWorkerPool._release_stale_tasks
    reaper_wake,  \* time at which the reaper's sleep ends
    pool_running, \* QueueWorkerPool.running
    stop_pc,      \* position of QueueWorkerPool.stop
    stop_i,       \* worker whose stop() QueueWorkerPool.stop is running
    stop_task,    \* the current_task_id QueueWorker.stop read
    route_pc,     \* per upload: position of convert_document / process_conversion
    result,       \* what the last direct call of a store operation returned or raised
    s3_upload,    \* per worker: what the upload of the result ZIP did
    S3_ENABLED,   \* settings.S3_ENABLED of this deployment
    file_extension, \* per worker: Path(original_filename).suffix of its task
    pool_workers, \* QueueWorkerPool.workers: the QueueWorker objects (worker_id, running)
    worker_tasks, \* QueueWorkerPool.worker_tasks: the asyncio task of each worker.start()
    stale_loops,  \* every asyncio task created for _release_stale_tasks
    stale_task,   \* QueueWorkerPool.stale_task: index in stale_loops (0: None)
    starts,       \* history: QueueWorkerPool.start calls made
    startup_pc,   \* position of startup_event
    pre,          \* history: the tasks table before the last direct claim
    schema,       \* the database file: tasks table, its columns, indexes, user_version
    semaphore,    \* QueueWorkerPool.libreoffice_semaphore: permits that are free
    libreoffice_lock, \* _libreoffice_lock: the worker holding it
    office_pc,    \* per converting worker: position in the conversion step
    converter,    \* per converting worker: the converter get_converter returned
    inits,        \* history: init_db calls that have returned
    calls         \* history: direct calls of store operations made

officeVars == <<semaphore, libreoffice_lock, office_pc, converter>>
lifeVars == <<pool_workers, worker_tasks, stale_loops, stale_task, starts, startup_pc>>
auxVars == <<pre, schema, inits, calls, S3_ENABLED, file_extension, lifeVars, officeVars>>

vars == <<tasks, dblock, supports_returning, result, now, faults, pc, running,
          current_task_id, task, sel, cached, s3_upload, q0, auxVars, reaper_pc, reaper_wake,
          pool_running, stop_pc, stop_i, stop_task, route_pc>>

workerVars == <<pc, running, current_task_id, task, sel, cached, s3_upload>>
poolVars == <<reaper_pc, reaper_wake, pool_running, stop_pc, stop_i, stop_task>>

\* ------------------------------------------------------------------- store

\* A row as create_task inserts it: worker_id, processing_started and
\* result_path are not in the INSERT column list and default to NULL.
NewRow(status, message, progress, file_hash, created_at) ==
    [status |-> status, worker_id |-> NoWorker, processing_started |-> NULL,
     progress |-> progress, result_path |-> NoPath, message |-> message,
     created_at |-> created_at, file_hash |-> file_hash, s3_url |-> NoUrl]

ALLOWED_FIELDS == {"status", "message", "progress", "result_path", "s3_url",
                   "downloaded", "worker_id", "processing_started", "file_hash"}

\* INSERT INTO tasks (id, ..., status, created_at, ..., message, progress,
\* file_hash): the table after the insert (id is the PRIMARY KEY: the engine
\* refuses a second row with the same id, see CreateOutcome)
create_task(T, task_id, task_data, t) ==
    (task_id :> NewRow(task_data.status, task_data.message, task_data.progress,
                       task_data.file_hash, t)) @@ T

\* what the INSERT of create_task does when it reaches the engine
CreateOutcome(T, task_id) ==
    IF task_id \in DOMAIN T THEN "integrity" ELSE "ok"

\* A row after a statement whose SET list is `assignments` (of the columns
\* assigned, a row shows those it carries)
SetColumns(row, assignments) ==
    [k \in DOMAIN row |-> IF k \in DOMAIN assignments THEN assignments[k] ELSE row[k]]

\* (variant) every supplied field is written
update_task_unfiltered(T, task_id, updates) ==
    IF task_id \in DOMAIN T
    THEN [T EXCEPT ![task_id] =
            SetColumns(SetColumns(@, updates), [updated_at |-> now])]
    ELSE T

\* (variant) an UPDATE that inserts the row when the id has none
update_task_upsert(T, task_id, updates) ==
    LET filtered_updates ==
           [k \in ((DOMAIN updates) \cap ALLOWED_FIELDS) \cup {"updated_at"} |->
               IF k = "updated_at" THEN now ELSE updates[k]]
    IN IF task_id \in DOMAIN T
       THEN [T EXCEPT ![task_id] = SetColumns(@, filtered_updates)]
       ELSE (task_id :> SetColumns(NewRow("pending", "", 0, NoHash, now),
                                   filtered_updates)) @@ T

\* filtered_updates = the whitelisted fields of `updates`, plus updated_at;
\* UPDATE tasks SET <filtered_updates> WHERE id = ?  (no row: nothing changes)
update_task(T, task_id, updates) ==
    LET filtered_updates ==
           [k \in ((DOMAIN updates) \cap ALLOWED_FIELDS) \cup {"updated_at"} |->
               IF k = "updated_at" THEN now ELSE updates[k]]
    IN IF task_id \in DOMAIN T
       THEN [T EXCEPT ![task_id] = SetColumns(@, filtered_updates)]
       ELSE T

\* DELETE FROM tasks WHERE id = ?
delete_task(T, task_id) == [i \in (DOMAIN T) \ {task_id} |-> T[i]]

\* old_tasks of cleanup_old_tasks: SELECT id ... WHERE created_at < cutoff_time
OldTasks(T, days) == {i \in DOMAIN T : T[i].created_at < now - days}

\* cleanup_old_tasks: DELETE FROM tasks WHERE created_at < cutoff_time
cleanup_old_tasks(T, days) == [i \in (DOMAIN T) \ OldTasks(T, days) |-> T[i]]

\* update_task_status: message is written only when it is truthy
update_task_status(T, task_id, status, message) ==
    update_task(T, task_id,
        IF message # "" THEN [status |-> status, message |-> message]
                        ELSE [status |-> status])

\* update_task_result (s3_url not passed by the callers)
update_task_result(T, task_id, result_path, progress) ==
    update_task(T, task_id, [result_path |-> result_path, progress |-> progress])

\* (variant) the subselect without its status filter
QueuedHeadAnyStatus(T) ==
    {i \in DOMAIN T : /\ T[i].status \in {"queued", "processing"}
                      /\ \A j \in DOMAIN T : T[j].status \in {"queued", "processing"}
                            => T[i].created_at <= T[j].created_at}

\* (variant) ORDER BY created_at DESC
QueuedHeadNewest(T) ==
    {i \in DOMAIN T : /\ T[i].status = "queued"
                      /\ \A j \in DOMAIN T : T[j].status = "queued"
                            => T[j].created_at <= T[i].created_at}

\* SELECT id FROM tasks WHERE status = 'queued' ORDER BY created_at ASC LIMIT 1:
\* the ids the statement may return (ties in created_at are broken by the engine)
QueuedHead(T) ==
    {i \in DOMAIN T : /\ T[i].status = "queued"
                      /\ \A j \in DOMAIN T : T[j].status = "queued"
                            => T[i].created_at <= T[j].created_at}

\* (variant) the claim also overwrites the message
ClaimRowMessage(T, task_id, worker_id, t) ==
    [T EXCEPT ![task_id] =
        SetColumns(@, [status |-> "processing", worker_id |-> worker_id,
                       processing_started |-> t, updated_at |-> t,
                       message |-> "claimed"])]

\* UPDATE ... SET status='processing', worker_id=?, processing_started=?,
\* updated_at=? WHERE id=?
ClaimRow(T, task_id, worker_id, t) ==
    [T EXCEPT ![task_id] =
        SetColumns(@, [status |-> "processing", worker_id |-> worker_id,
                       processing_started |-> t, updated_at |-> t])]

\* WHERE status = 'processing' AND processing_started < cutoff
\* (a NULL processing_started compares as unknown and is not selected)
StaleRows(T, cutoff) ==
    {i \in DOMAIN T : /\ T[i].status = "processing"
                      /\ T[i].processing_started # NULL
                      /\ T[i].processing_started < cutoff}

\* (variant) the cutoff taken one tick too early
release_stale_tasks_late(T, t, timeout_seconds) ==
    [i \in DOMAIN T |->
        IF i \in StaleRows(T, t - timeout_seconds - 1)
        THEN [T[i] EXCEPT !.status = "queued", !.worker_id = NoWorker,
                          !.processing_started = NULL, !.message = "timeout"]
        ELSE T[i]]

\* (variant) the claim's worker_id is kept
release_stale_tasks_keep(T, t, timeout_seconds) ==
    [i \in DOMAIN T |->
        IF i \in StaleRows(T, t - timeout_seconds)
        THEN [T[i] EXCEPT !.status = "queued",
                          !.processing_started = NULL, !.message = "timeout"]
        ELSE T[i]]

\* release_stale_tasks: the UPDATE; the count returned is Cardinality(StaleRows)
release_stale_tasks(T, t, timeout_seconds) ==
    [i \in DOMAIN T |->
        IF i \in StaleRows(T, t - timeout_seconds)
        THEN SetColumns(T[i], [status |-> "queued", worker_id |-> NoWorker,
                               processing_started |-> NULL, message |-> "timeout",
                               updated_at |-> t])
        ELSE T[i]]

\* count = SELECT changes() after the UPDATE of release_stale_tasks
release_stale_count(T, t, timeout_seconds) ==
    Cardinality(StaleRows(T, t - timeout_seconds))

\* count = SELECT changes() after the UPDATE of cleanup_stale_processing_tasks
cleanup_stale_count(T) ==
    Cardinality({i \in DOMAIN T : T[i].status \in {"processing", "pending"}})

\* (variant) WHERE status = 'pending'
cleanup_stale_pending_tasks(T) ==
    [i \in DOMAIN T |->
        IF T[i].status = "pending"
        THEN SetColumns(T[i], [status |-> "failed", message |-> "restarted",
                               updated_at |-> now])
        ELSE T[i]]

\* cleanup_stale_processing_tasks: the UPDATE
cleanup_stale_processing_tasks(T) ==
    [i \in DOMAIN T |->
        IF T[i].status \in {"processing", "pending"}
        THEN SetColumns(T[i], [status |-> "failed", message |-> "restarted",
                               updated_at |-> now])
        ELSE T[i]]

\* SELECT * FROM tasks WHERE file_hash = ? AND status = 'completed'
\* ORDER BY created_at DESC LIMIT 1: the ids the statement may return
get_task_by_hash(T, file_hash) ==
    {i \in DOMAIN T : /\ T[i].file_hash = file_hash
                      /\ T[i].status = "completed"
                      /\ \A j \in DOMAIN T :
                            (T[j].file_hash = file_hash /\ T[j].status = "completed")
                            => T[j].created_at <= T[i].created_at}

\* The dict a store read returns for row i (the columns the callers use).
RowDict(T, i) ==
    [id |-> i, status |-> T[i].status, worker_id |-> T[i].worker_id,
     processing_started |-> T[i].processing_started,
     file_hash |-> T[i].file_hash, result_path |-> T[i].result_path]

\* The cached_task of _process_task before the cache recheck has run.
NoCached == [id |-> NoTask, result_path |-> NoPath, s3_url |-> NoUrl, stat |-> "none"]

\* No direct store call has been made.
NoResult ==
    [op |-> "", arg |-> 0, attempts |-> 0, backoff |-> <<>>, error |-> "",
     value |-> 0, outcomes |-> <<>>]

\* Python None where a task dict is expected.
None ==
    [id |-> NoTask, status |-> "", worker_id |-> NoWorker,
     processing_started |-> NULL, file_hash |-> NoHash, result_path |-> NoPath]

\* await asyncio.sleep(0.1 * (2 ** attempt)) after each of the runs before
\* the a-th: the sleeps, in tenths of a second
Backoff(a) == [b \in 1..(a - 1) |-> 2 ^ (b - 1)]

\* (variant) the second locked run is the last
_with_retry_twice(outcomes) ==
    LET a == IF outcomes[1] = "locked" THEN 2 ELSE 1
    IN [attempts |-> a,
        backoff |-> Backoff(a),
        error |-> CASE outcomes[a] = "ok" -> ""
                    [] outcomes[a] = "integrity" -> "IntegrityError"
                    [] OTHER -> "OperationalError"]

\* (variant) every error is retried
_with_retry_all(outcomes) ==
    LET a == CHOOSE a \in 1..MaxRetries :
                /\ outcomes[a] = "ok" \/ a = MaxRetries
                /\ \A b \in 1..(a - 1) : outcomes[b] # "ok"
    IN [attempts |-> a,
        backoff |-> Backoff(a),
        error |-> CASE outcomes[a] = "ok" -> ""
                    [] outcomes[a] = "integrity" -> "IntegrityError"
                    [] OTHER -> "OperationalError"]

\* _with_retry: outcomes[a] is what operation() does at its a-th run: "ok",
\* "locked" (OperationalError 'database is locked'), "operational" (another
\* OperationalError) or "integrity" (IntegrityError).  Only a locked run
\* before the last attempt is repeated; any other error is raised at once.
_with_retry(outcomes) ==
    LET a == CHOOSE a \in 1..MaxRetries :
                /\ outcomes[a] # "locked" \/ a = MaxRetries
                /\ \A b \in 1..(a - 1) : outcomes[b] = "locked"
    IN [attempts |-> a,
        backoff |-> Backoff(a),
        error |-> CASE outcomes[a] = "ok" -> ""
                    [] outcomes[a] = "integrity" -> "IntegrityError"
                    [] OTHER -> "OperationalError"]

\* A store operation may raise (OperationalError after the retries of
\* _with_retry, or any other error of the engine); it then changes nothing.
CanRaise == faults < MaxFaults

\* ------------------------------------------- get_next_queued_task(worker_id)
\* pc = "call": the coroutine is inside get_next_queued_task and its
\* statement has not run yet.  pc = "ret": the statement is committed and the
\* result is in task[w], not yet handed to the caller (await db.close()).

\* if self._supports_returning: UPDATE ... WHERE id = (SELECT ... LIMIT 1)
\* RETURNING *; fetchone; commit
GetNextReturning(w) ==
    /\ pc[w] = "call"
    /\ supports_returning
    /\ dblock = NoWorker
    /\ IF QueuedHead(tasks) = {}
       THEN /\ task' = [task EXCEPT ![w] = None]
            /\ UNCHANGED tasks
       ELSE \E i \in QueuedHead(tasks) :
            /\ tasks' = ClaimRow(tasks, i, w, now)
            /\ task' = [task EXCEPT ![w] = RowDict(tasks', i)]
    /\ pc' = [pc EXCEPT ![w] = "ret"]
    /\ UNCHANGED <<dblock, supports_returning, result, now, faults, running,
                   current_task_id, sel, cached, s3_upload, q0, auxVars, poolVars, route_pc>>

\* else: BEGIN IMMEDIATE takes the write lock (a second writer waits)
GetNextBegin(w) ==
    /\ pc[w] = "call"
    /\ ~supports_returning
    /\ dblock = NoWorker
    /\ dblock' = w
    /\ pc' = [pc EXCEPT ![w] = "begun"]
    /\ UNCHANGED <<tasks, supports_returning, result, now, faults, running,
                   current_task_id, task, sel, cached, s3_upload, q0, auxVars, poolVars, route_pc>>

\* SELECT id ... LIMIT 1; no row: rollback, return None
GetNextSelect(w) ==
    /\ pc[w] = "begun"
    /\ IF QueuedHead(tasks) = {}
       THEN /\ dblock' = NoWorker
            /\ task' = [task EXCEPT ![w] = None]
            /\ pc' = [pc EXCEPT ![w] = "ret"]
            /\ UNCHANGED sel
       ELSE /\ \E i \in QueuedHead(tasks) : sel' = [sel EXCEPT ![w] = i]
            /\ pc' = [pc EXCEPT ![w] = "selected"]
            /\ UNCHANGED <<dblock, task>>
    /\ UNCHANGED <<tasks, supports_returning, result, now, faults, running,
                   current_task_id, cached, s3_upload, q0, auxVars, poolVars, route_pc>>

\* UPDATE ... WHERE id = ? AND status = 'queued'; SELECT changes();
\* changes = 1: SELECT *, commit, return the dict; else rollback, return None
GetNextUpdate(w) ==
    /\ pc[w] = "selected"
    /\ IF sel[w] \in DOMAIN tasks /\ tasks[sel[w]].status = "queued"
       THEN /\ tasks' = ClaimRow(tasks, sel[w], w, now)
            /\ task' = [task EXCEPT ![w] = RowDict(tasks', sel[w])]
       ELSE /\ task' = [task EXCEPT ![w] = None]
            /\ UNCHANGED tasks
    /\ dblock' = NoWorker
    /\ sel' = [sel EXCEPT ![w] = NoTask]
    /\ pc' = [pc EXCEPT ![w] = "ret"]
    /\ UNCHANGED <<supports_returning, result, now, faults, running,
                   current_task_id, cached, s3_upload, q0, auxVars, poolVars, route_pc>>

\* (variant) a loop without the handler: the error ends the coroutine
LoopHandlerMissing == "exited"

\* except Exception as e: logger.error(...); await asyncio.sleep(poll_interval)
\* inside `while self.running`: where an error leaves the loop of start()
LoopHandler == "sleep"

\* the operation raises: QueueWorker.start logs and sleeps poll_interval
GetNextRaise(w) ==
    /\ pc[w] = "call"
    /\ CanRaise
    /\ faults' = faults + 1
    /\ pc' = [pc EXCEPT ![w] = LoopHandler]
    /\ UNCHANGED <<tasks, dblock, supports_returning, result, now, running,
                   current_task_id, task, sel, cached, s3_upload, q0, auxVars, poolVars, route_pc>>

get_next_queued_task(w) ==
    \/ GetNextReturning(w)
    \/ GetNextBegin(w)
    \/ GetNextSelect(w)
    \/ GetNextUpdate(w)
    \/ GetNextRaise(w)

\* ------------------------------------------------------- QueueWorker.start
\* task = await get_next_queued_task(...) returns: with a task,
\* current_task_id is set and _process_task runs up to its first await;
\* without one the worker sleeps poll_interval.
\*   file_hash set:   first await is get_task_by_hash          (pc "cache")
\*   file_hash unset: the input file is looked up; missing -> FileNotFoundError
\*                    (pc "fail"), else the hash is computed    (pc "hash")
TakeTask(w) ==
    /\ pc[w] = "ret"
    /\ IF task[w].id = NoTask
       THEN /\ pc' = [pc EXCEPT ![w] = "sleep"]
            /\ UNCHANGED current_task_id
       ELSE /\ current_task_id' = [current_task_id EXCEPT ![w] = task[w].id]
            /\ IF task[w].file_hash # NoHash
               THEN pc' = [pc EXCEPT ![w] = "cache"]
               ELSE \E input_exists \in BOOLEAN :
                       pc' = [pc EXCEPT ![w] = IF input_exists THEN "hash" ELSE "fail"]
    /\ UNCHANGED <<tasks, dblock, supports_returning, result, now, faults, running,
                   task, sel, cached, s3_upload, q0, auxVars, poolVars, route_pc>>

\* await asyncio.sleep(poll_interval) ends (the locals of a _process_task
\* that raised are gone); while self.running
Wake(w) ==
    /\ pc[w] \in {"sleep", "escaped"}
    /\ pc' = [pc EXCEPT ![w] = IF running[w] THEN "call" ELSE "exited"]
    /\ cached' = [cached EXCEPT ![w] = NoCached]
    /\ s3_upload' = [s3_upload EXCEPT ![w] = ""]
    /\ UNCHANGED <<tasks, dblock, supports_returning, result, now, faults, running,
                   current_task_id, task, sel, q0, auxVars, poolVars, route_pc>>

\* _process_task returned (its locals are gone): self.current_task_id = None;
\* while self.running
Return(w) ==
    /\ pc[w] = "back"
    /\ current_task_id' = [current_task_id EXCEPT ![w] = NoTask]
    /\ task' = [task EXCEPT ![w] = None]
    /\ pc' = [pc EXCEPT ![w] = IF running[w] THEN "call" ELSE "exited"]
    /\ cached' = [cached EXCEPT ![w] = NoCached]
    /\ s3_upload' = [s3_upload EXCEPT ![w] = ""]
    /\ UNCHANGED <<tasks, dblock, supports_returning, result, now, faults, running,
                   sel, q0, auxVars, poolVars, route_pc>>

\* --------------------------------------------------- QueueWorker._process_task
\* One update_task call of the worker: the UPDATE commits and the worker goes
\* on to `next`, or the call raises and the worker goes on to `handler`.
WorkerUpdate(w, at, updates, next, handler) ==
    /\ pc[w] = at
    /\ \/ /\ dblock = NoWorker
          /\ tasks' = update_task(tasks, task[w].id, updates)
          /\ pc' = [pc EXCEPT ![w] = next]
          /\ UNCHANGED faults
       \/ /\ CanRaise
          /\ faults' = faults + 1
          /\ pc' = [pc EXCEPT ![w] = handler]
          /\ UNCHANGED tasks
    /\ UNCHANGED <<dblock, supports_returning, result, now, running,
                   current_task_id, task, sel, cached, s3_upload, q0, auxVars, poolVars, route_pc>>

\* What follows the cache recheck and the hash derivation, up to the next
\* await: the input file must exist and ConverterFactory.get_converter must
\* know the extension, else the outer handler runs.
AfterLookup(input_exists, supported) ==
    IF input_exists /\ supported THEN "p30" ELSE "fail"

\* (variant) the artifact is not looked up on disk
CacheUsableNoStat(result_path, exists) ==
    result_path \notin {NoPath, EmptyPath}

\* `cached_task.get('result_path')` is truthy and os.path.exists(result_path)
CacheUsable(result_path, exists) ==
    result_path \notin {NoPath, EmptyPath} /\ exists

\* What get_task_by_hash may return: a row id, or NoTask for None.
CachedTasks(T, file_hash) ==
    IF get_task_by_hash(T, file_hash) = {} THEN {NoTask}
    ELSE get_task_by_hash(T, file_hash)

\* cached_task as the worker keeps it; os.path.exists is only evaluated
\* when result_path is truthy (the file may have been removed by a cleanup)
CachedTask(T, c, exists) ==
    IF c = NoTask THEN NoCached
    ELSE [id |-> c, result_path |-> T[c].result_path, s3_url |-> T[c].s3_url,
          stat |-> IF T[c].result_path \in {NoPath, EmptyPath} THEN "none"
                   ELSE IF exists THEN "exists" ELSE "missing"]

\* cached_task = await self.db.get_task_by_hash(file_hash); on a usable hit
\* the cached result is taken, else the input file is looked up
CacheRecheck(w) ==
    /\ pc[w] = "cache"
    /\ \E c \in CachedTasks(tasks, task[w].file_hash) :
       \E exists, input_exists, supported \in BOOLEAN :
          /\ cached' = [cached EXCEPT ![w] = CachedTask(tasks, c, exists)]
          /\ pc' = [pc EXCEPT ![w] =
                      IF CacheUsable(CachedTask(tasks, c, exists).result_path, exists)
                      THEN "cache_hit"
                      ELSE AfterLookup(input_exists, supported)]
    /\ UNCHANGED <<tasks, dblock, supports_returning, result, now, faults, running,
                   current_task_id, task, sel, s3_upload, q0, auxVars, poolVars, route_pc>>

\* (variant) the update without the cached s3_url
CachedUpdateNoUrl(c) ==
    [status |-> "completed", result_path |-> c.result_path,
     progress |-> 100, message |-> "cached"]

\* the fields of the persist-cached update
CachedUpdate(c) ==
    [status |-> "completed", result_path |-> c.result_path,
     s3_url |-> c.s3_url, progress |-> 100, message |-> "cached"]

\* the cached result is used: one update, then return
CacheHit(w) ==
    /\ WorkerUpdate(w, "cache_hit", CachedUpdate(cached[w]), "back", "fail")

\* file_hash = await async_calculate_file_hash(...); update_task({'file_hash'})
HashDerivation(w) ==
    /\ pc[w] = "hash"
    /\ \E h \in Hashes, supported \in BOOLEAN :
          WorkerUpdate(w, "hash", [file_hash |-> h],
                       AfterLookup(TRUE, supported), "fail")

\* update_task({'progress': 30, 'message': 'conversion started'}); the
\* worker then awaits converter.convert(...)
ProgressStarted(w) ==
    /\ WorkerUpdate(w, "p30", [progress |-> 30, message |-> "started"],
                    "convert", "fail")

\* converter.convert(...) raises, or returns and the worker calls
\* update_task({'progress': 70, 'message': 'packaging'}); it then awaits
\* async_create_result_zip
Convert(w) ==
    \/ /\ pc[w] = "convert"
       /\ pc' = [pc EXCEPT ![w] = "fail"]
       /\ UNCHANGED <<tasks, dblock, supports_returning, result, now, faults, running,
                      current_task_id, task, sel, cached, s3_upload, q0, auxVars, poolVars, route_pc>>
    \/ /\ WorkerUpdate(w, "convert", [progress |-> 70, message |-> "packaging"],
                       "package", "fail")

\* (variant) an upload that raises fails the task
PublishNextFatal(outcome) == IF outcome = "raised" THEN "fail_inner" ELSE "persist"

\* Where the worker goes on after the upload step: S3 is disabled, the upload
\* gave a URL, it gave None, or it raised and `except Exception as s3_error`
\* logged the error
PublishNext(outcome) == "persist"

\* s3_url of _process_task after the upload step
S3Url(outcome, task_id) == IF outcome = "url" THEN task_id ELSE NoUrl

\* What `if S3_ENABLED: try: s3_url = await async_upload_result_to_s3(...)`
\* can do
UploadOutcomes == IF S3_ENABLED THEN {"url", "none", "raised"} ELSE {"disabled"}

\* async_create_result_zip raises (inner handler), or the ZIP is built and,
\* if S3_ENABLED, async_upload_result_to_s3 is awaited
Package(w) ==
    /\ pc[w] = "package"
    /\ \/ /\ pc' = [pc EXCEPT ![w] = "fail_inner"]
          /\ UNCHANGED s3_upload
       \/ \E outcome \in UploadOutcomes :
             /\ s3_upload' = [s3_upload EXCEPT ![w] = outcome]
             /\ pc' = [pc EXCEPT ![w] = PublishNext(outcome)]
    /\ UNCHANGED <<tasks, dblock, supports_returning, result, now, faults, running,
                   current_task_id, task, sel, cached, q0, auxVars, poolVars, route_pc>>

\* update_task({'status': 'completed', 'result_path': actual_zip_path,
\*              's3_url': s3_url, 'progress': 100, 'message': ...})
PersistSuccess(w) ==
    /\ WorkerUpdate(w, "persist",
                    [status |-> "completed", result_path |-> task[w].id,
                     s3_url |-> S3Url(s3_upload[w], task[w].id),
                     progress |-> 100, message |-> "done"],
                    "back", "fail_inner")

\* (variant) a handler that records the error and leaves the status
FailureUpdateNoStatus(error_msg) == [message |-> error_msg, progress |-> 0]

\* the fields both handlers write: {'status': 'failed', 'message': error_msg,
\* 'progress': 0}
FailureUpdate(error_msg) ==
    [status |-> "failed", message |-> error_msg, progress |-> 0]

\* except Exception as processing_error: update_task({'status': 'failed',
\* 'message': ..., 'progress': 0}); an error raised here reaches the outer handler
PersistFailureInner(w) ==
    /\ WorkerUpdate(w, "fail_inner", FailureUpdate("error_result"), "back", "fail")

\* except Exception as e: update_task({'status': 'failed', 'message': ...,
\* 'progress': 0}); an error raised here escapes to the loop of start(),
\* which logs it and sleeps poll_interval
PersistFailure(w) ==
    /\ WorkerUpdate(w, "fail", FailureUpdate("error"), "back", "escaped")

_process_task(w) ==
    \/ CacheRecheck(w)
    \/ CacheHit(w)
    \/ HashDerivation(w)
    \/ ProgressStarted(w)
    \/ Convert(w)
    \/ Package(w)
    \/ PersistSuccess(w)
    \/ PersistFailureInner(w)
    \/ PersistFailure(w)

\* The loop of QueueWorker.start on an engine with RETURNING (SQLite >= 3.35,
\* what init_db finds on the deployment); the fallback transaction is
\* exercised by the concurrent claimants of SpecClaim.
start(w) ==
    \/ GetNextReturning(w)
    \/ GetNextRaise(w)
    \/ TakeTask(w)
    \/ _process_task(w)
    \/ Return(w)
    \/ Wake(w)

\* ------------------------------------- QueueWorkerPool._release_stale_tasks
\* released = await self.db.release_stale_tasks(self.stale_timeout); an error
\* is logged; then await asyncio.sleep(self.stale_check_interval)
ReaperRelease ==
    /\ reaper_pc = "run"
    /\ \/ /\ dblock = NoWorker
          /\ tasks' = release_stale_tasks(tasks, now, StaleTimeout)
          /\ UNCHANGED faults
       \/ /\ CanRaise
          /\ faults' = faults + 1
          /\ UNCHANGED tasks
    /\ reaper_pc' = "sleep"
    /\ reaper_wake' = now + StaleCheckInterval
    /\ UNCHANGED <<dblock, supports_returning, result, now, workerVars, q0, auxVars,
                   pool_running, stop_pc, stop_i, stop_task, route_pc>>

\* the sleep ends; while self.running
ReaperWake ==
    /\ reaper_pc = "sleep"
    /\ now >= reaper_wake
    /\ reaper_pc' = IF pool_running THEN "run" ELSE "exited"
    /\ UNCHANGED <<tasks, dblock, supports_returning, result, now, faults, workerVars,
                   q0, auxVars, reaper_wake, pool_running, stop_pc, stop_i, stop_task,
                   route_pc>>

_release_stale_tasks == ReaperRelease \/ ReaperWake

\* ----------------------------------------------------- QueueWorkerPool.stop
\* self.running = False; then `for worker in self.workers: await worker.stop()`
PoolStop ==
    /\ stop_pc = "idle"
    /\ pool_running' = FALSE
    /\ stop_pc' = "stopping"
    /\ stop_i' = 1
    /\ UNCHANGED <<tasks, dblock, supports_returning, result, now, faults, workerVars,
                   q0, auxVars, reaper_pc, reaper_wake, stop_task, route_pc>>

\* QueueWorker.stop up to its await: self.running = False; if
\* self.current_task_id: update_task(self.current_task_id, ...) is called
WorkerStop ==
    /\ stop_pc = "stopping"
    /\ stop_i \in Workers
    /\ running' = [running EXCEPT ![stop_i] = FALSE]
    /\ IF current_task_id[stop_i] # NoTask
       THEN /\ stop_task' = current_task_id[stop_i]
            /\ stop_pc' = "releasing"
            /\ UNCHANGED stop_i
       ELSE /\ stop_i' = stop_i + 1
            /\ UNCHANGED <<stop_task, stop_pc>>
    /\ UNCHANGED <<tasks, dblock, supports_returning, result, now, faults, pc,
                   current_task_id, task, sel, cached, s3_upload, q0, auxVars, reaper_pc,
                   reaper_wake, pool_running, route_pc>>

\* the update of QueueWorker.stop commits: {'status': 'queued', 'worker_id':
\* None, 'processing_started': None}; or it raises, and the error leaves
\* QueueWorkerPool.stop before any task is cancelled
WorkerStopRelease ==
    /\ stop_pc = "releasing"
    /\ \/ /\ dblock = NoWorker
          /\ tasks' = update_task(tasks, stop_task,
                        [status |-> "queued", worker_id |-> NoWorker,
                         processing_started |-> NULL])
          /\ stop_pc' = "stopping"
          /\ stop_i' = stop_i + 1
          /\ UNCHANGED faults
       \/ /\ CanRaise
          /\ faults' = faults + 1
          /\ stop_pc' = "raised"
          /\ UNCHANGED <<tasks, stop_i>>
    /\ stop_task' = NoTask
    /\ UNCHANGED <<dblock, supports_returning, result, now, workerVars, q0, auxVars, reaper_pc,
                   reaper_wake, pool_running, route_pc>>

\* `for task in self.worker_tasks: task.cancel()`, self.stale_task.cancel(),
\* await asyncio.gather(...): every coroutine still running gets CancelledError
\* at its await; a fallback transaction in progress is rolled back on close
PoolCancel ==
    /\ stop_pc = "stopping"
    /\ stop_i = NumWorkers + 1
    /\ pc' = [w \in Workers |-> IF pc[w] = "exited" THEN "exited" ELSE "cancelled"]
    /\ reaper_pc' = IF reaper_pc = "exited" THEN "exited" ELSE "cancelled"
    /\ dblock' = NoWorker
    /\ sel' = [w \in Workers |-> NoTask]
    /\ stop_pc' = "stopped"
    /\ UNCHANGED <<tasks, supports_returning, result, now, faults, running,
                   current_task_id, task, cached, s3_upload, q0, auxVars, reaper_wake,
                   pool_running, stop_i, stop_task, route_pc>>

stop == PoolStop \/ WorkerStop \/ WorkerStopRelease \/ PoolCancel

\* ------------------------------------ convert_document / process_conversion
\* One store call of the route: it commits and the route goes on to `next`,
\* or it raises and the route goes on to `handler`.
RouteWrite(u, at, T, next, handler) ==
    /\ route_pc[u] = at
    /\ \/ /\ dblock = NoWorker
          /\ tasks' = T
          /\ route_pc' = [route_pc EXCEPT ![u] = next]
          /\ UNCHANGED faults
       \/ /\ CanRaise
          /\ faults' = faults + 1
          /\ route_pc' = [route_pc EXCEPT ![u] = handler]
          /\ UNCHANGED tasks
    /\ UNCHANGED <<dblock, supports_returning, result, now, workerVars, q0, auxVars, poolVars>>

\* file_content of upload u: the uploads all carry the same bytes
UploadBytes(u) == 1

\* convert_document: create_task(task_id, {'status': StatusEnum.PENDING,
\* 'message': ..., 'progress': 0}) and the background task is scheduled;
\* an error answers 500 and nothing is scheduled
convert_document(u) ==
    RouteWrite(u, "none",
               create_task(tasks, u, [status |-> "pending", message |-> "queued",
                                      progress |-> 0, file_hash |-> NoHash], now),
               "created", "rejected")

\* update_task_status(PROCESSING, "Converting document...")
ConversionStart(u) ==
    RouteWrite(u, "created",
               update_task_status(tasks, u, "processing", "converting"),
               "converting", "fail_status")

\* converter choice, converter.convert, process_result_with_s3: done or raised
ConversionConvert(u) ==
    /\ route_pc[u] = "converting"
    /\ \E ok \in BOOLEAN :
          route_pc' = [route_pc EXCEPT ![u] = IF ok THEN "archive" ELSE "fail_status"]
    /\ UNCHANGED <<tasks, dblock, supports_returning, result, now, faults, workerVars,
                   q0, auxVars, poolVars>>

\* update_task_status(PROCESSING, "Creating archive..."); create_result_zip
\* runs next without an await: built or raised
ConversionArchive(u) ==
    \E ok \in BOOLEAN :
       RouteWrite(u, "archive",
                  update_task_status(tasks, u, "processing", "archive"),
                  IF ok THEN "complete" ELSE "fail_status", "fail_status")

\* update_task_status(COMPLETED, 'Conversion completed successfully')
ConversionCompleted(u) ==
    RouteWrite(u, "complete",
               update_task_status(tasks, u, "completed", "route_done"),
               "result", "fail_status")

\* update_task_result(zip_path, 100)
ConversionResult(u) ==
    RouteWrite(u, "result", update_task_result(tasks, u, u, 100),
               "done", "fail_status")

\* except Exception: update_task_status(FAILED, 'Error: ...')
ConversionFailed(u) ==
    RouteWrite(u, "fail_status",
               update_task_status(tasks, u, "failed", "route_error"),
               "fail_result", "done")

\* update_task_result("", 0)
ConversionFailedResult(u) ==
    RouteWrite(u, "fail_result", update_task_result(tasks, u, EmptyPath, 0),
               "done", "done")

process_conversion(u) ==
    \/ ConversionStart(u)
    \/ ConversionConvert(u)
    \/ ConversionArchive(u)
    \/ ConversionCompleted(u)
    \/ ConversionResult(u)
    \/ ConversionFailed(u)
    \/ ConversionFailedResult(u)

\* ------------------------------------------------ direct store operations
\* One call of a store operation through _with_retry: the runs that hit a
\* locked database change nothing, the run that succeeds commits table T and
\* returns `value`, an error is raised to the caller.
StoreCall(op, arg, outcomes, T, value) ==
    LET r == _with_retry(outcomes) IN
    /\ calls < MaxCalls
    /\ calls' = calls + 1
    /\ tasks' = IF r.error = "" THEN T ELSE tasks
    /\ result' = [op |-> op, arg |-> arg, attempts |-> r.attempts,
                  backoff |-> r.backoff,
                  error |-> r.error, value |-> IF r.error = "" THEN value ELSE 0,
                  outcomes |-> outcomes]
    /\ pre' = IF op = "get_next_queued_task" THEN tasks ELSE pre
    /\ UNCHANGED <<dblock, supports_returning, now, faults, workerVars, q0, S3_ENABLED, file_extension, lifeVars, schema,
                   inits, officeVars, poolVars, route_pc>>

\* What the runs of an operation do when the database is locked for its
\* first k runs and free afterwards: k times "locked", then what the
\* statement does on the engine.
Outcomes(engine) ==
    {[a \in 1..MaxRetries |-> IF a <= k THEN "locked" ELSE engine] :
        k \in 0..MaxRetries}

\* await db.release_stale_tasks(timeout_seconds)
StoreRelease ==
    /\ \E timeout_seconds \in {0, StaleTimeout} :
       \E outcomes \in Outcomes("ok") :
       StoreCall("release_stale_tasks", timeout_seconds, outcomes,
                 release_stale_tasks(tasks, now, timeout_seconds),
                 release_stale_count(tasks, now, timeout_seconds))

\* await db.cleanup_stale_processing_tasks()
StoreCleanup ==
    /\ \E outcomes \in Outcomes("ok") :
       StoreCall("cleanup_stale_processing_tasks", 0, outcomes,
                 cleanup_stale_processing_tasks(tasks), cleanup_stale_count(tasks))

\* await db.create_task(task_id, {'status': ..., 'message': ..., ...})
StoreCreate ==
    /\ \E task_id \in 1..(MaxStoreRows + 1), status \in {"queued", "pending"} :
       \E outcomes \in Outcomes(CreateOutcome(tasks, task_id)) :
       StoreCall("create_task", task_id, outcomes,
                 create_task(tasks, task_id,
                             [status |-> status, message |-> "created",
                              progress |-> 0, file_hash |-> NoHash], now),
                 0)

\* The `updates` a direct caller of update_task passes: the release of
\* QueueWorker.stop, no field, fields that are no columns of the whitelist,
\* a progress update with such a field mixed in, and the download mark.
NumUpdateInputs == 5

UpdateInput(n) ==
    CASE n = 1 -> [status |-> "queued", worker_id |-> NoWorker,
                   processing_started |-> NULL]
      [] n = 2 -> [k \in {} |-> 0]
      [] n = 3 -> [id |-> 9, created_at |-> 9, updated_at |-> 9]
      [] n = 4 -> [progress |-> 30, message |-> "started", original_filename |-> "x"]
      [] OTHER -> [downloaded |-> 1]

\* await db.update_task(task_id, updates)
StoreUpdate ==
    /\ \E task_id \in 1..(MaxStoreRows + 1), n \in 1..NumUpdateInputs :
       \E outcomes \in Outcomes("ok") :
       StoreCall("update_task", [task_id |-> task_id, updates |-> UpdateInput(n)],
                 outcomes, update_task(tasks, task_id, UpdateInput(n)), 0)

\* await db.get_next_queued_task(worker_id) on an engine with RETURNING: the
\* value is the id of the row returned, NoTask for None
StoreClaim ==
    /\ \E worker_id \in Workers, outcomes \in Outcomes("ok") :
       \E i \in IF QueuedHead(tasks) = {} THEN {NoTask} ELSE QueuedHead(tasks) :
       StoreCall("get_next_queued_task", worker_id, outcomes,
                 IF i = NoTask THEN tasks ELSE ClaimRow(tasks, i, worker_id, now), i)

\* await db.delete_task(task_id)
StoreDelete ==
    /\ \E task_id \in 1..(MaxStoreRows + 1), outcomes \in Outcomes("ok") :
       StoreCall("delete_task", task_id, outcomes, delete_task(tasks, task_id), 0)

\* await db.cleanup_old_tasks(days): the value is the ids of old_tasks
StoreCleanupOld ==
    /\ \E days \in {0, 1}, outcomes \in Outcomes("ok") :
       StoreCall("cleanup_old_tasks", days, outcomes,
                 cleanup_old_tasks(tasks, days), OldTasks(tasks, days))

\* ------------------------------------------------------------------ init_db
\* The columns of CREATE TABLE IF NOT EXISTS tasks (...)
BaseColumns ==
    {"id", "original_filename", "status", "created_at", "updated_at",
     "downloaded", "result_path", "message", "progress", "s3_url", "file_hash",
     "worker_id", "processing_started"}

\* The columns migration v2 adds when they are absent
QueueColumns == {"worker_id", "processing_started"}

\* The indexes init_db creates (IF NOT EXISTS)
BaseIndexes ==
    {"idx_status", "idx_created_at", "idx_downloaded", "idx_file_hash",
     "idx_completed_recent"}

\* The indexes migration v2 creates (IF NOT EXISTS)
QueueIndexes == {"idx_queue", "idx_worker", "idx_stale_tasks"}

\* A database file no init_db has touched: no table, user_version 0
NoSchema == [table |-> FALSE, columns |-> {}, indexes |-> {}, user_version |-> 0]

\* The database file after init_db
CurrentSchema ==
    [table |-> TRUE, columns |-> BaseColumns,
     indexes |-> BaseIndexes \cup QueueIndexes,
     user_version |-> TargetSchemaVersion]

\* _init up to its commit: CREATE TABLE IF NOT EXISTS, CREATE INDEX IF NOT EXISTS
CreateSchema(S) ==
    [S EXCEPT !.table = TRUE,
              !.columns = IF S.table THEN S.columns ELSE BaseColumns,
              !.indexes = S.indexes \cup BaseIndexes]

\* _migrate_to_v2: the columns are added if absent, every 'pending' row
\* becomes 'queued', the queue indexes are created if absent
_migrate_to_v2(D) ==
    [schema |-> [D.schema EXCEPT !.columns = @ \cup QueueColumns,
                                 !.indexes = @ \cup QueueIndexes],
     tasks |-> [i \in DOMAIN D.tasks |->
                  IF D.tasks[i].status = "pending"
                  THEN [D.tasks[i] EXCEPT !.status = "queued"]
                  ELSE D.tasks[i]]]

\* (variant) the migration runs whatever the stored version is
run_migrations_always(D) ==
    LET M == _migrate_to_v2(D)
    IN [M EXCEPT !.schema.user_version = TargetSchemaVersion]

\* run_migrations on database D = [schema, tasks]: PRAGMA user_version is
\* read; below 2 the migration runs; below the target the version is set
\* and the transaction committed
run_migrations(D) ==
    LET current_version == D.schema.user_version
        M == IF current_version < 2 THEN _migrate_to_v2(D) ELSE D
    IN IF current_version < TargetSchemaVersion
       THEN [M EXCEPT !.schema.user_version = TargetSchemaVersion]
       ELSE M

\* init_db: _init through _with_retry.  A run that finds the database locked
\* raises before its first commit (nothing is written) or inside
\* run_migrations (the CREATE statements are committed, the migration is
\* rolled back); _supports_returning is read from the engine's version
\* (3.35 or later on the deployment).
StoreInit ==
    /\ inits < MaxInits
    /\ \E outcomes \in Outcomes("ok"), late \in BOOLEAN :
          LET r == _with_retry(outcomes)
              D == run_migrations([schema |-> CreateSchema(schema), tasks |-> tasks])
          IN /\ schema' = IF r.error = "" THEN D.schema
                          ELSE IF late THEN CreateSchema(schema) ELSE schema
             /\ tasks' = IF r.error = "" THEN D.tasks ELSE tasks
             /\ inits' = IF r.error = "" THEN inits + 1 ELSE inits
             /\ supports_returning' = (r.error = "" \/ late \/ supports_returning)
             /\ result' = [op |-> "init_db", arg |-> 0, attempts |-> r.attempts,
                           backoff |-> r.backoff,
                           error |-> r.error, value |-> 0, outcomes |-> outcomes]
    /\ UNCHANGED <<dblock, now, faults, workerVars, q0, S3_ENABLED, file_extension, lifeVars, pre, calls, officeVars,
                   poolVars, route_pc>>

\* ------------------------------------------ the conversion step of a worker
\* office_pc = "idle": the worker is before the conversion step of its task.
\*   "sem_wait":  at `async with self.libreoffice_semaphore`
\*   "lock_wait": inside PdfBridgeConverter.convert, at `async with
\*                _libreoffice_lock` of convert_to_pdf_with_libreoffice
\*   "office":    the LibreOffice subprocess runs (create_subprocess_exec,
\*                communicate with its timeout)
\*   "markdown":  MarkerConverter.convert runs
\*   "done" / "failed": the conversion returned / raised; the worker awaits
\*                the update_task that follows
\* MarkerConverter.convert contains no await: while it runs no other
\* coroutine of the event loop does.
Busy == \E v \in OfficeWorkers : office_pc[v] = "markdown"

\* (variant) the semaphore admits every caller
SemaphoreNeverLocked(value) == FALSE

\* asyncio.Semaphore: acquire waits while no permit is free
SemaphoreLocked(value) == value <= 0

\* (variant) the permit is given back only when the conversion returns
ReleaseOnReturn(ok) == IF ok THEN 1 ELSE 0

\* `async with self.libreoffice_semaphore:` is left, by return or by an
\* exception: the permits given back
ReleaseOnExit(ok) == 1

\* (variant) the lock stays taken when the office stage fails
LockKeptOnFailure(w, ok) == IF ok THEN NoWorker ELSE w

\* `async with _libreoffice_lock:` is left, by return (a path or None): the
\* holder of the lock afterwards
LockOnExit(w, ok) == NoWorker

\* converter = ConverterFactory.get_converter(file_extension); the progress
\* update returns; a PdfBridgeConverter goes to the semaphore, any other
\* converter is run at once
GetConverter(w) ==
    /\ office_pc[w] = "idle"
    /\ ~Busy
    /\ \E c \in {"PdfBridgeConverter", "MarkerConverter"} :
          /\ converter' = [converter EXCEPT ![w] = c]
          /\ office_pc' = [office_pc EXCEPT ![w] =
                             IF c = "PdfBridgeConverter" THEN "sem_wait" ELSE "markdown"]
    /\ UNCHANGED <<tasks, dblock, supports_returning, result, now, faults, workerVars,
                   q0, S3_ENABLED, file_extension, lifeVars, pre, schema, inits, calls, semaphore, libreoffice_lock,
                   poolVars, route_pc>>

\* async with self.libreoffice_semaphore: a permit is taken and
\* converter.convert runs up to the lock of its office stage
SemAcquire(w) ==
    /\ office_pc[w] = "sem_wait"
    /\ ~Busy
    /\ ~SemaphoreLocked(semaphore)
    /\ semaphore' = semaphore - 1
    /\ office_pc' = [office_pc EXCEPT ![w] = "lock_wait"]
    /\ UNCHANGED <<tasks, dblock, supports_returning, result, now, faults, workerVars,
                   q0, S3_ENABLED, file_extension, lifeVars, pre, schema, inits, calls, libreoffice_lock, converter,
                   poolVars, route_pc>>

\* async with _libreoffice_lock: the lock is taken and the subprocess started
LockAcquire(w) ==
    /\ office_pc[w] = "lock_wait"
    /\ ~Busy
    /\ libreoffice_lock = NoWorker
    /\ libreoffice_lock' = w
    /\ office_pc' = [office_pc EXCEPT ![w] = "office"]
    /\ UNCHANGED <<tasks, dblock, supports_returning, result, now, faults, workerVars,
                   q0, S3_ENABLED, file_extension, lifeVars, pre, schema, inits, calls, semaphore, converter,
                   poolVars, route_pc>>

\* the subprocess ends (or is killed at its timeout) and the lock is left.
\* With a PDF the markdown stage starts at once; with None convert raises
\* RuntimeError, the semaphore block is left and the outer handler runs.
OfficeDone(w) ==
    /\ office_pc[w] = "office"
    /\ ~Busy
    /\ \E ok \in BOOLEAN :
          /\ libreoffice_lock' = LockOnExit(w, ok)
          /\ office_pc' = [office_pc EXCEPT ![w] = IF ok THEN "markdown" ELSE "failed"]
          /\ semaphore' = IF ok THEN semaphore ELSE semaphore + ReleaseOnExit(ok)
    /\ UNCHANGED <<tasks, dblock, supports_returning, result, now, faults, workerVars,
                   q0, S3_ENABLED, file_extension, lifeVars, pre, schema, inits, calls, converter, poolVars, route_pc>>

\* MarkerConverter.convert returns or raises; a PdfBridgeConverter's
\* convert ends with it and the semaphore block is left
MarkdownDone(w) ==
    /\ office_pc[w] = "markdown"
    /\ \E ok \in BOOLEAN :
          /\ office_pc' = [office_pc EXCEPT ![w] = IF ok THEN "done" ELSE "failed"]
          /\ semaphore' = IF converter[w] = "PdfBridgeConverter"
                          THEN semaphore + ReleaseOnExit(ok) ELSE semaphore
    /\ UNCHANGED <<tasks, dblock, supports_returning, result, now, faults, workerVars,
                   q0, S3_ENABLED, file_extension, lifeVars, pre, schema, inits, calls, libreoffice_lock, converter,
                   poolVars, route_pc>>

\* the rest of _process_task, and the worker's next task reaches its
\* conversion step
NextTask(w) ==
    /\ office_pc[w] \in {"done", "failed"}
    /\ ~Busy
    /\ office_pc' = [office_pc EXCEPT ![w] = "idle"]
    /\ converter' = [converter EXCEPT ![w] = ""]
    /\ UNCHANGED <<tasks, dblock, supports_returning, result, now, faults, workerVars,
                   q0, S3_ENABLED, file_extension, lifeVars, pre, schema, inits, calls, semaphore, libreoffice_lock,
                   poolVars, route_pc>>

ConversionStep(w) ==
    \/ GetConverter(w)
    \/ SemAcquire(w)
    \/ LockAcquire(w)
    \/ OfficeDone(w)
    \/ MarkdownDone(w)
    \/ NextTask(w)

\* ------------------------------------------- ConverterFactory.get_converter
\* Suffixes of uploaded file names: the nine keys of CONVERTERS, one of them
\* also in upper case, '.zip' (accepted by the route), '.html' and no suffix.
Extensions == {".pdf", ".epub", ".doc", ".docx", ".odt", ".rtf", ".xls", ".xlsx",
               ".pptx", ".PDF", ".zip", ".html", ""}

\* str.lower() on the suffixes of Extensions
Lower(file_ext) == IF file_ext = ".PDF" THEN ".pdf" ELSE file_ext

\* ConverterFactory.CONVERTERS
CONVERTERS ==
    [e \in {".pdf", ".epub"} |-> "MarkerConverter"] @@
    [e \in {".doc", ".docx", ".odt", ".rtf", ".xls", ".xlsx", ".pptx"} |->
        "PdfBridgeConverter"]

\* get_converter: CONVERTERS.get(file_extension.lower()); no class: ValueError
get_converter(file_ext) ==
    IF Lower(file_ext) \in DOMAIN CONVERTERS THEN CONVERTERS[Lower(file_ext)]
    ELSE "ValueError"

\* settings.MARKER_FORMATS and PDF_BRIDGE_FORMATS, written as suffixes (the
\* lists process_conversion chooses its converter by)
MARKER_FORMATS == {".pdf", ".pptx", ".xlsx", ".epub"}

PDF_BRIDGE_FORMATS == {".doc", ".docx", ".odt", ".rtf", ".xls"}

\* file_extension = Path(original_filename).suffix.lower(); converter =
\* ConverterFactory.get_converter(file_extension): a ValueError reaches the
\* outer handler, else the worker goes on to the progress update
Dispatch(w) ==
    /\ pc[w] = "dispatch"
    /\ LET c == get_converter(Lower(file_extension[w]))
       IN IF c = "ValueError"
          THEN /\ pc' = [pc EXCEPT ![w] = "fail"]
               /\ UNCHANGED converter
          ELSE /\ pc' = [pc EXCEPT ![w] = "p30"]
               /\ converter' = [converter EXCEPT ![w] = c]
    /\ UNCHANGED <<tasks, dblock, supports_returning, result, now, faults, running,
                   current_task_id, task, sel, cached, s3_upload, q0, pre, schema, inits,
                   calls, S3_ENABLED, file_extension, lifeVars, semaphore,
                   libreoffice_lock, office_pc, poolVars, route_pc>>

\* ------------------------------------ QueueWorkerPool.start / stop, as calls
\* The loops of a pool as asyncio tasks: "created" (not yet run), "live",
\* "exited" (its `while self.running` ended it) or "cancelled".
Alive == {"created", "live"}

\* (variant) a stale-task loop is created with every worker
StaleTasksPerWorker(num_workers) == num_workers

\* self.stale_task = asyncio.create_task(self._release_stale_tasks()): once
\* per start(), after the loop over the workers
StaleTasksCreated(num_workers) == 1

\* QueueWorkerPool.start (it has no await): running = True; num_workers
\* QueueWorker objects worker_1..worker_N are appended to self.workers and a
\* task of worker.start() to self.worker_tasks; self.stale_task is replaced
StartLoops ==
    /\ starts' = starts + 1
    /\ pool_running' = TRUE
    /\ pool_workers' = pool_workers \o
                        [i \in 1..NumWorkers |-> [worker_id |-> i, running |-> FALSE]]
    /\ worker_tasks' = worker_tasks \o [i \in 1..NumWorkers |-> "created"]
    /\ stale_loops' = stale_loops \o
                        [j \in 1..StaleTasksCreated(NumWorkers) |-> "created"]
    /\ stale_task' = Len(stale_loops')

\* a call of QueueWorkerPool.start, on a pool whatever its state
PoolStart ==
    /\ starts < MaxStarts
    /\ stop_pc # "stopping"
    /\ StartLoops
    /\ UNCHANGED <<tasks, dblock, supports_returning, result, now, faults, workerVars,
                   q0, pre, schema, inits, calls, S3_ENABLED, file_extension, startup_pc, officeVars,
                   reaper_pc, reaper_wake, stop_pc, stop_i, stop_task, route_pc>>

\* QueueWorker.start begins: self.running = True
WorkerLoopBegin(k) ==
    /\ k \in DOMAIN worker_tasks
    /\ worker_tasks[k] = "created"
    /\ worker_tasks' = [worker_tasks EXCEPT ![k] = "live"]
    /\ pool_workers' = [pool_workers EXCEPT ![k].running = TRUE]
    /\ UNCHANGED <<tasks, dblock, supports_returning, result, now, faults, workerVars,
                   q0, pre, schema, inits, calls, S3_ENABLED, file_extension, stale_loops, stale_task,
                   starts, startup_pc, officeVars, poolVars, route_pc>>

\* `while self.running` of QueueWorker.start finds running False
WorkerLoopExit(k) ==
    /\ k \in DOMAIN worker_tasks
    /\ worker_tasks[k] = "live"
    /\ ~pool_workers[k].running
    /\ worker_tasks' = [worker_tasks EXCEPT ![k] = "exited"]
    /\ UNCHANGED <<tasks, dblock, supports_returning, result, now, faults, workerVars,
                   q0, pre, schema, inits, calls, S3_ENABLED, file_extension, pool_workers, stale_loops,
                   stale_task, starts, startup_pc, officeVars, poolVars, route_pc>>

\* `while self.running` of _release_stale_tasks, at its first run and after
\* each sleep: the pool's flag, whichever start() created the loop
StaleLoopStep(j) ==
    /\ j \in DOMAIN stale_loops
    /\ \/ stale_loops[j] = "created"
       \/ stale_loops[j] = "live" /\ ~pool_running
    /\ stale_loops' = [stale_loops EXCEPT ![j] = IF pool_running THEN "live" ELSE "exited"]
    /\ UNCHANGED <<tasks, dblock, supports_returning, result, now, faults, workerVars,
                   q0, pre, schema, inits, calls, S3_ENABLED, file_extension, pool_workers, worker_tasks,
                   stale_task, starts, startup_pc, officeVars, poolVars, route_pc>>

\* QueueWorkerPool.stop is called: self.running = False
PoolStopCall ==
    /\ stop_pc # "stopping"
    /\ starts > 0
    /\ pool_running' = FALSE
    /\ stop_pc' = "stopping"
    /\ stop_i' = 1
    /\ UNCHANGED <<tasks, dblock, supports_returning, result, now, faults, workerVars,
                   q0, auxVars, reaper_pc, reaper_wake, stop_task, route_pc>>

\* `await worker.stop()` for the next object of self.workers: running = False
\* and, if it holds a task, the release update, which may raise and end
\* QueueWorkerPool.stop there
PoolStopWorker ==
    /\ stop_pc = "stopping"
    /\ stop_i \in DOMAIN pool_workers
    /\ pool_workers' = [pool_workers EXCEPT ![stop_i].running = FALSE]
    /\ \/ /\ stop_i' = stop_i + 1
          /\ UNCHANGED <<stop_pc, faults>>
       \/ /\ CanRaise
          /\ faults' = faults + 1
          /\ stop_pc' = "raised"
          /\ UNCHANGED stop_i
    /\ UNCHANGED <<tasks, dblock, supports_returning, result, now, workerVars,
                   q0, pre, schema, inits, calls, S3_ENABLED, file_extension, worker_tasks, stale_loops,
                   stale_task, starts, startup_pc, officeVars, reaper_pc, reaper_wake,
                   pool_running, stop_task, route_pc>>

\* `for task in self.worker_tasks: task.cancel()`; `if self.stale_task:
\* self.stale_task.cancel()`; gather: stop() returns
PoolStopCancel ==
    /\ stop_pc = "stopping"
    /\ stop_i = Len(pool_workers) + 1
    /\ worker_tasks' = [k \in DOMAIN worker_tasks |->
                           IF worker_tasks[k] \in Alive THEN "cancelled" ELSE worker_tasks[k]]
    /\ stale_loops' = [j \in DOMAIN stale_loops |->
                          IF j = stale_task /\ stale_loops[j] \in Alive
                          THEN "cancelled" ELSE stale_loops[j]]
    /\ stop_pc' = "stopped"
    /\ UNCHANGED <<tasks, dblock, supports_returning, result, now, faults, workerVars,
                   q0, pre, schema, inits, calls, S3_ENABLED, file_extension, pool_workers, stale_task,
                   starts, startup_pc, officeVars, reaper_pc, reaper_wake, pool_running,
                   stop_i, stop_task, route_pc>>

\* ------------------------------------------------------------ startup_event
\* One awaited store call of startup_event, through _with_retry: it returns
\* and startup_event goes on to `next`, or it raises and startup_event ends
\* with that error (nothing after it runs).  The clock may advance meanwhile.
StartupCall(at, op, arg, T, value, next) ==
    /\ startup_pc = at
    /\ \E outcomes \in Outcomes("ok") :
          LET r == _with_retry(outcomes)
          IN /\ tasks' = IF r.error = "" THEN T ELSE tasks
             /\ startup_pc' = IF r.error = "" THEN next ELSE "aborted"
             /\ result' = [op |-> op, arg |-> arg, attempts |-> r.attempts,
                           backoff |-> r.backoff, error |-> r.error,
                           value |-> IF r.error = "" THEN value ELSE 0,
                           outcomes |-> outcomes]
    /\ now' \in {now, now + 1}
    /\ now' <= MaxTime

\* await task_db.init_db()
StartupInitDb ==
    LET D == run_migrations([schema |-> CreateSchema(schema), tasks |-> tasks])
    IN /\ StartupCall("init", "init_db", 0, D.tasks, 0, "cleanup")
       /\ schema' = IF startup_pc' = "cleanup" THEN D.schema ELSE schema
       /\ inits' = IF startup_pc' = "cleanup" THEN inits + 1 ELSE inits
       /\ UNCHANGED <<dblock, supports_returning, faults, workerVars, q0, pre, calls,
                      S3_ENABLED, file_extension, pool_workers, worker_tasks,
                      stale_loops, stale_task, starts, officeVars, poolVars, route_pc>>

\* cleaned = await task_db.cleanup_stale_processing_tasks()
StartupCleanup ==
    /\ StartupCall("cleanup", "cleanup_stale_processing_tasks", 0,
                   cleanup_stale_processing_tasks(tasks), cleanup_stale_count(tasks),
                   "release")
    /\ UNCHANGED <<dblock, supports_returning, faults, workerVars, q0, pre, schema,
                   inits, calls, S3_ENABLED, file_extension, pool_workers, worker_tasks,
                   stale_loops, stale_task, starts, officeVars, poolVars, route_pc>>

\* reset_count = await task_db.release_stale_tasks(0)
StartupRelease ==
    /\ StartupCall("release", "release_stale_tasks", 0,
                   release_stale_tasks(tasks, now, 0), release_stale_count(tasks, now, 0),
                   "start")
    /\ UNCHANGED <<dblock, supports_returning, faults, workerVars, q0, pre, schema,
                   inits, calls, S3_ENABLED, file_extension, pool_workers, worker_tasks,
                   stale_loops, stale_task, starts, officeVars, poolVars, route_pc>>

\* worker_pool = QueueWorkerPool(...); await worker_pool.start()
StartupPoolStart ==
    /\ startup_pc = "start"
    /\ startup_pc' = "started"
    /\ StartLoops
    /\ UNCHANGED <<tasks, dblock, supports_returning, result, now, faults, workerVars,
                   q0, pre, schema, inits, calls, S3_ENABLED, file_extension, officeVars,
                   reaper_pc, reaper_wake, stop_pc, stop_i, stop_task, route_pc>>

startup_event ==
    \/ StartupInitDb
    \/ StartupCleanup
    \/ StartupRelease
    \/ StartupPoolStart

\* --------------------------------------------------------------------- time
\* The clock advances.  A coroutine whose sleep has ended, and a store call
\* of the reaper, run before the next tick.
Tick ==
    /\ now < MaxTime
    /\ reaper_pc # "run"
    /\ ~(reaper_pc = "sleep" /\ now >= reaper_wake)
    /\ now' = now + 1
    /\ UNCHANGED <<tasks, dblock, supports_returning, result, faults, workerVars, q0, auxVars,
                   poolVars, route_pc>>

\* ------------------------------------------------------------ initial states
WorkerInit ==
    /\ pc = [w \in Workers |-> "call"]
    /\ running = [w \in Workers |-> TRUE]
    /\ current_task_id = [w \in Workers |-> NoTask]
    /\ task = [w \in Workers |-> None]
    /\ sel = [w \in Workers |-> NoTask]
    /\ cached = [w \in Workers |-> NoCached]
    /\ s3_upload = [w \in Workers |-> ""]

PoolInit ==
    /\ reaper_pc = "run"
    /\ reaper_wake = 0
    /\ pool_running = TRUE
    /\ stop_pc = "idle"
    /\ stop_i = 0
    /\ stop_task = NoTask

\* The database file as init_db leaves it, no direct claim made, and the
\* office-suite semaphore and lock as QueueWorkerPool.__init__ and the import
\* of pdf_bridge_converter create them.
\* The pool as startup_event leaves it: QueueWorkerPool.start has been called
\* once and every loop has begun.
LifeInit ==
    /\ pool_workers = [i \in 1..NumWorkers |-> [worker_id |-> i, running |-> TRUE]]
    /\ worker_tasks = [i \in 1..NumWorkers |-> "live"]
    /\ stale_loops = <<"live">>
    /\ stale_task = 1
    /\ starts = 1
    /\ startup_pc = "started"

\* No direct call made, the schema of a migrated database, nobody converting.
IdleInit ==
    /\ pre = <<>>
    /\ file_extension = [w \in Workers |-> ""]
    /\ schema = CurrentSchema
    /\ inits = 1
    /\ calls = 0
    /\ semaphore = OfficeConcurrency
    /\ libreoffice_lock = NoWorker
    /\ office_pc = [w \in OfficeWorkers |-> "idle"]
    /\ converter = [w \in OfficeWorkers |-> ""]

AuxInit ==
    /\ LifeInit
    /\ IdleInit

\* K concurrent callers of get_next_queued_task against a store whose rows
\* are QUEUED, COMPLETED or FAILED, created at times 0..1 (ties included).
InitClaim ==
    /\ \E st \in [Rows -> {"queued", "completed", "failed"}] :
       \E ca \in [Rows -> 0..1] :
          tasks = [i \in Rows |->
                      IF st[i] = "queued"
                      THEN NewRow("queued", "", 0, NoHash, ca[i])
                      ELSE [NewRow(st[i], "", 0, NoHash, ca[i])
                              EXCEPT !.progress = IF st[i] = "completed" THEN 100 ELSE 0,
                                     !.result_path = IF st[i] = "completed" THEN i ELSE NoPath]]
    /\ q0 = Cardinality({i \in DOMAIN tasks : tasks[i].status = "queued"})
    /\ dblock = NoWorker
    /\ supports_returning \in BOOLEAN
    /\ now = 1
    /\ faults = 0
    /\ WorkerInit
    /\ PoolInit
    /\ route_pc = [u \in Uploads |-> "none"]
    /\ result = NoResult
    /\ AuxInit
    /\ S3_ENABLED = FALSE

NextClaim == \E w \in Workers : get_next_queued_task(w)

SpecClaim == InitClaim /\ [][NextClaim]_vars

\* The workers drain a queue: row 1 is an earlier task, COMPLETED with
\* content hash 1 (its result_path and s3_url set or not), and rows
\* 2..NumQueued+1 were enqueued after it, one per clock reading, with that
\* content hash or without any.  No reaper, no stop.
InitQueue ==
    /\ \E rp \in {NoPath, 1}, url \in {NoUrl, 1} :
       \E fh \in [2..(NumQueued + 1) -> {NoHash, 1}] :
          tasks = [i \in 1..(NumQueued + 1) |->
                      IF i = 1
                      THEN [NewRow("completed", "done", 100, 1, 0)
                              EXCEPT !.result_path = rp, !.s3_url = url]
                      ELSE NewRow("queued", "", 0, fh[i], i - 1)]
    /\ q0 = NumQueued
    /\ dblock = NoWorker
    /\ supports_returning = TRUE
    /\ now = NumQueued
    /\ faults = 0
    /\ WorkerInit
    /\ PoolInit
    /\ route_pc = [u \in Uploads |-> "none"]
    /\ result = NoResult
    /\ AuxInit
    /\ S3_ENABLED \in BOOLEAN

NextQueue == \E w \in Workers : start(w)

SpecQueue == InitQueue /\ [][NextQueue]_vars

\* The rows a store can hold: enqueued ('queued', or 'pending' from the
\* upload route), claimed by a worker at time 0..2, set to 'processing' by
\* the upload route (no worker, no processing_started), completed by a
\* worker (the fields of its claim stay) and failed.
StoreRowShapes ==
    {NewRow("queued", "", 0, NoHash, 0), NewRow("pending", "", 0, NoHash, 0),
     [NewRow("processing", "", 0, NoHash, 0) EXCEPT !.message = "converting"]}
    \cup {[NewRow("processing", "", 30, NoHash, 0)
              EXCEPT !.worker_id = 1, !.processing_started = t] : t \in 0..2}
    \cup {[NewRow("completed", "done", 100, NoHash, 0)
              EXCEPT !.worker_id = 1, !.processing_started = 0, !.result_path = 1],
          NewRow("failed", "error", 0, NoHash, 0)}

\* Direct calls of the store operations on such a table, at time 2.
InitStore ==
    /\ tasks \in [1..MaxStoreRows -> StoreRowShapes]
    /\ q0 = 0
    /\ dblock = NoWorker
    /\ supports_returning = TRUE
    /\ now = 2
    /\ faults = 0
    /\ WorkerInit
    /\ PoolInit
    /\ route_pc = [u \in Uploads |-> "none"]
    /\ result = NoResult
    /\ AuxInit
    /\ S3_ENABLED = FALSE

\* The rows of a database written before migration v2: 'pending' when
\* accepted, 'processing' while converted, then 'completed' or 'failed'.
LegacyRowShapes ==
    {NewRow("pending", "", 0, NoHash, 0),
     [NewRow("processing", "", 0, NoHash, 0) EXCEPT !.message = "converting"],
     [NewRow("completed", "route_done", 100, NoHash, 0) EXCEPT !.result_path = 1],
     NewRow("failed", "route_error", 0, NoHash, 0)}

\* init_db is called on a database file that does not exist yet, on one an
\* earlier version of the service wrote (no queue columns, user_version
\* below 2), or on one the service has initialised and used before (the
\* upload route inserts 'pending' rows).
InitInit ==
    /\ \/ /\ schema = NoSchema
          /\ tasks = <<>>
       \/ /\ \E v \in 0..(TargetSchemaVersion - 1), ix \in {{}, BaseIndexes} :
                schema = [table |-> TRUE, columns |-> BaseColumns \ QueueColumns,
                          indexes |-> ix, user_version |-> v]
          /\ tasks \in [1..MaxStoreRows -> LegacyRowShapes]
       \/ /\ schema = CurrentSchema
          /\ tasks \in [1..MaxStoreRows -> StoreRowShapes]
    /\ inits = 0
    /\ calls = 0
    /\ S3_ENABLED = FALSE
    /\ file_extension = [w \in Workers |-> ""]
    /\ LifeInit
    /\ supports_returning = FALSE
    /\ pre = <<>>
    /\ semaphore = OfficeConcurrency
    /\ libreoffice_lock = NoWorker
    /\ office_pc = [w \in OfficeWorkers |-> "idle"]
    /\ converter = [w \in OfficeWorkers |-> ""]
    /\ q0 = 0
    /\ dblock = NoWorker
    /\ now = 2
    /\ faults = 0
    /\ WorkerInit
    /\ PoolInit
    /\ route_pc = [u \in Uploads |-> "none"]
    /\ result = NoResult

NextInit == StoreInit

SpecInit == InitInit /\ [][NextInit]_vars

\* A row with all the columns of the table that the store operations write
\* or compare.
FullRow(row, updated_at) ==
    [k \in (DOMAIN row) \cup {"updated_at", "downloaded", "original_filename"} |->
        CASE k = "updated_at" -> updated_at
          [] k = "downloaded" -> 0
          [] k = "original_filename" -> "f"
          [] OTHER -> row[k]]

\* The rows of such a table: enqueued at time 0 or 1, claimed by worker_1 at
\* time 1, completed, failed.
FullRowShapes ==
    {FullRow(NewRow("queued", "", 0, NoHash, c), c) : c \in 0..1}
    \cup {FullRow([NewRow("processing", "", 0, NoHash, 0)
                      EXCEPT !.worker_id = 1, !.processing_started = 1], 1),
          FullRow([NewRow("completed", "done", 100, 1, 0) EXCEPT !.result_path = 1], 1),
          FullRow(NewRow("failed", "error", 0, NoHash, 0), 1)}

\* Direct calls of update_task, get_next_queued_task, delete_task and
\* cleanup_old_tasks on such a table, at time 2.
InitRow ==
    /\ tasks \in [1..MaxStoreRows -> FullRowShapes]
    /\ q0 = 0
    /\ dblock = NoWorker
    /\ supports_returning = TRUE
    /\ now = 2
    /\ faults = 0
    /\ WorkerInit
    /\ PoolInit
    /\ route_pc = [u \in Uploads |-> "none"]
    /\ result = NoResult
    /\ AuxInit
    /\ S3_ENABLED = FALSE

NextRow == StoreUpdate \/ StoreClaim \/ StoreDelete \/ StoreCleanupOld

SpecRow == InitRow /\ [][NextRow]_vars

NextStore == StoreRelease \/ StoreCleanup \/ StoreCreate

SpecStore == InitStore /\ [][NextStore]_vars

\* file_hash of the seeded rows: the first (older enqueue path) has none and
\* gets its content hash when a worker derives it; later ones have the same
\* content hash from the start.
SeedHash(i) == IF i = 1 THEN NoHash ELSE 1

\* The pool has been started on a store whose rows are all QUEUED (rows of an
\* earlier schema that migration v2 rewrote from 'pending').
Init ==
    /\ tasks = [i \in Seeded |-> NewRow("queued", "", 0, SeedHash(i), 0)]
    /\ q0 = NumSeeded
    /\ dblock = NoWorker
    /\ supports_returning = TRUE
    /\ now = 0
    /\ faults = 0
    /\ WorkerInit
    /\ PoolInit
    /\ route_pc = [u \in Uploads |-> "none"]
    /\ result = NoResult
    /\ AuxInit
    /\ S3_ENABLED = FALSE

\* The worker pool: the workers, the reaper, QueueWorkerPool.stop and the clock.
Next ==
    \/ \E w \in Workers : start(w)
    \/ _release_stale_tasks
    \/ stop
    \/ Tick

Spec == Init /\ [][Next]_vars

\* The workers of the pool at the conversion steps of their tasks.
NextOffice == \E w \in OfficeWorkers : ConversionStep(w)

SpecOffice == Init /\ [][NextOffice]_vars

\* The same with conversions that end and the event loop's scheduling: a
\* coroutine that is ready over and over is run (the loop's ready queue and
\* the waiter queues of Semaphore and Lock are first-in first-out).
SpecOfficeLive ==
    /\ SpecOffice
    /\ \A w \in OfficeWorkers :
          /\ WF_vars(MarkdownDone(w))
          /\ SF_vars(OfficeDone(w))
          /\ SF_vars(SemAcquire(w))
          /\ SF_vars(LockAcquire(w))

\* The upload route: convert_document and its background process_conversion.
\* Its rows are 'pending', then 'processing' without a worker: no worker
\* claims them and the reaper never selects them.
NextUpload == \E u \in Uploads : convert_document(u) \/ process_conversion(u)

SpecUpload == Init /\ [][NextUpload]_vars

\* A QueueWorkerPool object before its first start(), then any sequence of
\* start() and stop() calls with the loops they create.
InitPool ==
    /\ tasks = <<>>
    /\ q0 = 0
    /\ dblock = NoWorker
    /\ supports_returning = TRUE
    /\ now = 0
    /\ faults = 0
    /\ WorkerInit
    /\ reaper_pc = "run"
    /\ reaper_wake = 0
    /\ pool_running = FALSE
    /\ stop_pc = "idle"
    /\ stop_i = 0
    /\ stop_task = NoTask
    /\ route_pc = [u \in Uploads |-> "none"]
    /\ result = NoResult
    /\ IdleInit
    /\ S3_ENABLED = FALSE
    /\ pool_workers = <<>>
    /\ worker_tasks = <<>>
    /\ stale_loops = <<>>
    /\ stale_task = 0
    /\ starts = 0
    /\ startup_pc = "started"

NextPool ==
    \/ PoolStart
    \/ \E k \in 1..(MaxStarts * NumWorkers) : WorkerLoopBegin(k) \/ WorkerLoopExit(k)
    \/ \E j \in 1..(MaxStarts * NumWorkers) : StaleLoopStep(j)
    \/ PoolStopCall
    \/ PoolStopWorker
    \/ PoolStopCancel

SpecPool == InitPool /\ [][NextPool]_vars

\* Every worker holds a claimed task whose input file exists and is at the
\* dispatch of its converter; the file names have the suffixes of Extensions.
InitDispatch ==
    /\ tasks = [i \in Workers |->
                   ClaimRow([j \in Workers |-> NewRow("queued", "", 0, 1, 0)], i, i, 0)[i]]
    /\ q0 = 0
    /\ dblock = NoWorker
    /\ supports_returning = TRUE
    /\ now = 0
    /\ faults = 0
    /\ pc = [w \in Workers |-> "dispatch"]
    /\ running = [w \in Workers |-> TRUE]
    /\ current_task_id = [w \in Workers |-> w]
    /\ task = [w \in Workers |-> RowDict(tasks, w)]
    /\ sel = [w \in Workers |-> NoTask]
    /\ cached = [w \in Workers |-> NoCached]
    /\ s3_upload = [w \in Workers |-> ""]
    /\ PoolInit
    /\ route_pc = [u \in Uploads |-> "none"]
    /\ result = NoResult
    /\ LifeInit
    /\ pre = <<>>
    /\ schema = CurrentSchema
    /\ inits = 1
    /\ calls = 0
    /\ semaphore = OfficeConcurrency
    /\ libreoffice_lock = NoWorker
    /\ office_pc = [w \in OfficeWorkers |-> "idle"]
    /\ converter = [w \in OfficeWorkers |-> ""]
    /\ S3_ENABLED = FALSE
    /\ file_extension \in [Workers -> Extensions]

NextDispatch ==
    \E w \in Workers :
       \/ Dispatch(w)
       \/ ProgressStarted(w)
       \/ Convert(w)
       \/ Package(w)
       \/ PersistSuccess(w)
       \/ PersistFailureInner(w)
       \/ PersistFailure(w)

SpecDispatch == InitDispatch /\ [][NextDispatch]_vars

\* The server starts on the database file of an earlier run: rows in any
\* status, some of them in flight when that run ended (`pre` keeps the table
\* as the restart finds it); no pool exists yet.
InitStartup ==
    /\ tasks \in [1..MaxStoreRows -> StoreRowShapes]
    /\ pre = tasks
    /\ startup_pc = "init"
    /\ q0 = 0
    /\ dblock = NoWorker
    /\ supports_returning = TRUE
    /\ now = 2
    /\ faults = 0
    /\ WorkerInit
    /\ reaper_pc = "run"
    /\ reaper_wake = 0
    /\ pool_running = FALSE
    /\ stop_pc = "idle"
    /\ stop_i = 0
    /\ stop_task = NoTask
    /\ route_pc = [u \in Uploads |-> "none"]
    /\ result = NoResult
    /\ schema = CurrentSchema
    /\ inits = 0
    /\ calls = 0
    /\ semaphore = OfficeConcurrency
    /\ libreoffice_lock = NoWorker
    /\ office_pc = [w \in OfficeWorkers |-> "idle"]
    /\ converter = [w \in OfficeWorkers |-> ""]
    /\ S3_ENABLED = FALSE
    /\ file_extension = [w \in Workers |-> ""]
    /\ pool_workers = <<>>
    /\ worker_tasks = <<>>
    /\ stale_loops = <<>>
    /\ stale_task = 0
    /\ starts = 0

NextStartup == startup_event

SpecStartup == InitStartup /\ [][NextStartup]_vars

\* The pool of Spec with a store whose operations all succeed; no stop is
\* called.
InitLive ==
    /\ tasks = [i \in Seeded |-> NewRow("queued", "", 0, SeedHash(i), 0)]
    /\ q0 = NumSeeded
    /\ dblock = NoWorker
    /\ supports_returning = TRUE
    /\ now = 0
    /\ faults = MaxFaults
    /\ WorkerInit
    /\ PoolInit
    /\ route_pc = [u \in Uploads |-> "none"]
    /\ result = NoResult
    /\ AuxInit
    /\ S3_ENABLED = FALSE

\* A step of worker w when no store operation raises
WorkerStep(w) ==
    \/ GetNextReturning(w)
    \/ TakeTask(w)
    \/ _process_task(w)
    \/ Return(w)
    \/ Wake(w)

NextLive ==
    \/ \E w \in Workers : WorkerStep(w)
    \/ _release_stale_tasks
    \/ Tick

\* The event loop runs every coroutine that stays ready, and conversions end.
SpecLive ==
    /\ InitLive
    /\ [][NextLive]_vars
    /\ \A w \in Workers : WF_vars(WorkerStep(w))
    /\ WF_vars(_release_stale_tasks)

\* ================================================================== claims

Min(a, b) == IF a <= b THEN a ELSE b

\* the callers whose get_next_queued_task has returned a task
Winners == {w \in Workers : pc[w] = "ret" /\ task[w].id # NoTask}

AllReturned == \A w \in Workers : pc[w] = "ret"

\* C1 (SpecClaim): among K concurrent get_next_queued_task calls on a store
\* with Q QUEUED rows no task id is returned to two callers, at most
\* min(K, Q) calls return a task, and with Q = 1 exactly one caller gets the
\* task, with worker_id set to that caller, once all have returned.
ClaimExclusive ==
    /\ \A w1, w2 \in Winners : task[w1].id = task[w2].id => w1 = w2
    /\ Cardinality(Winners) <= Min(NumWorkers, q0)
    /\ (q0 = 1 /\ AllReturned) =>
          /\ Cardinality(Winners) = 1
          /\ \A w \in Winners : /\ task[w].worker_id = w
                                /\ tasks[task[w].id].worker_id = w

ClaimExclusiveWitness ==
    /\ q0 = 1
    /\ AllReturned
    /\ Winners # {}
    /\ \E w \in Workers : task[w] = None

\* C10 (SpecClaim): a get_next_queued_task call that returns gives None and
\* changes nothing iff no row is QUEUED when its statement runs; otherwise it
\* takes a QUEUED row of smallest created_at, sets status, worker_id and
\* processing_started = now on that row only, and returns the updated row;
\* claimants over at least as many QUEUED rows all get distinct tasks.
ClaimReturns(w) ==
    IF \A j \in DOMAIN tasks : tasks[j].status # "queued"
    THEN /\ task'[w] = None
         /\ tasks' = tasks
    ELSE /\ task'[w].id \in DOMAIN tasks
         /\ LET i == task'[w].id IN
            /\ tasks[i].status = "queued"
            /\ \A j \in DOMAIN tasks :
                  tasks[j].status = "queued" => tasks[i].created_at <= tasks[j].created_at
            /\ tasks'[i].status = "processing"
            /\ tasks'[i].worker_id = w
            /\ tasks'[i].processing_started = now
            /\ \A k \in DOMAIN tasks[i] \ {"status", "worker_id", "processing_started"} :
                  tasks'[i][k] = tasks[i][k]
            /\ \A j \in DOMAIN tasks \ {i} : tasks'[j] = tasks[j]
            /\ DOMAIN tasks' = DOMAIN tasks
            /\ task'[w].status = "processing"
            /\ task'[w].worker_id = w
            /\ task'[w].processing_started = now
            /\ task'[w].file_hash = tasks[i].file_hash

ClaimNextContract ==
    /\ [][\A w \in Workers : (pc[w] # "ret" /\ pc'[w] = "ret") => ClaimReturns(w)]_vars
    /\ []((AllReturned /\ q0 >= NumWorkers) => Cardinality(Winners) = NumWorkers)

ClaimNextWitness ==
    \E w \in Winners : \E j \in DOMAIN tasks :
       /\ tasks[j].status = "queued"
       /\ tasks[j].created_at > tasks[task[w].id].created_at

\* the workers that are inside _process_task
InProcess(w) ==
    pc[w] \in {"cache", "cache_hit", "hash", "p30", "convert", "package",
               "persist", "fail_inner", "fail"}

\* C2 (Spec): no two workers are executing _process_task for the same task id
\* at the same time.
OneWorkerPerTask ==
    \A w1, w2 \in Workers :
       (w1 # w2 /\ InProcess(w1) /\ InProcess(w2)) => task[w1].id # task[w2].id

\* C3 (SpecUpload): every row whose status is PROCESSING has worker_id and
\* processing_started set.
ProcessingHasWorker ==
    \A i \in DOMAIN tasks :
       tasks[i].status = "processing" =>
          tasks[i].worker_id # NoWorker /\ tasks[i].processing_started # NULL

\* C4 (Spec): every row that is QUEUED, COMPLETED or FAILED has worker_id and
\* processing_started NULL.
IdleRowsUnclaimed ==
    \A i \in DOMAIN tasks :
       tasks[i].status \in {"queued", "completed", "failed"} =>
          tasks[i].worker_id = NoWorker /\ tasks[i].processing_started = NULL

\* C5 (Spec): every COMPLETED row has a result_path and progress 100.
CompletedHasResult ==
    \A i \in DOMAIN tasks :
       tasks[i].status = "completed" =>
          tasks[i].result_path # NoPath /\ tasks[i].progress = 100

\* C6 (Spec): a row's status changes only along QUEUED -> PROCESSING,
\* PROCESSING -> COMPLETED, PROCESSING -> FAILED and PROCESSING -> QUEUED.
LifecycleEdges ==
    [][\A i \in DOMAIN tasks :
          tasks'[i].status # tasks[i].status =>
             <<tasks[i].status, tasks'[i].status>> \in
                {<<"queued", "processing">>, <<"processing", "completed">>,
                 <<"processing", "failed">>, <<"processing", "queued">>}]_vars

\* C7 (Spec): a worker that met an error after its claim leaves the error
\* handling only with the row persisted FAILED, progress 0 and the error
\* message, and no row is PROCESSING under a worker that is back at polling.
Polling(w) == pc[w] \in {"call", "begun", "selected", "sleep", "escaped"}

ErrorPersisted ==
    /\ [][\A w \in Workers :
            (pc[w] \in {"fail", "fail_inner"} /\
             pc'[w] \notin {"fail", "fail_inner", "cancelled"}) =>
               /\ tasks'[task[w].id].status = "failed"
               /\ tasks'[task[w].id].progress = 0
               /\ tasks'[task[w].id].message \in {"error", "error_result"}]_vars
    /\ [](\A w \in Workers : Polling(w) =>
            \A i \in DOMAIN tasks :
               ~(tasks[i].status = "processing" /\ tasks[i].worker_id = w))

\* a PROCESSING row whose processing_started is older than stale_timeout
Stale(i) ==
    /\ tasks[i].status = "processing"
    /\ tasks[i].processing_started # NULL
    /\ tasks[i].processing_started < now - StaleTimeout

StopReleasesClaims ==
    stop_pc = "stopped" =>
       \A i \in DOMAIN tasks :
          ~(tasks[i].status = "processing" /\ tasks[i].worker_id \in Workers)

\* C13 (SpecStore): a release_stale_tasks(timeout) call that commits turns
\* exactly the rows that are PROCESSING with processing_started < now - timeout
\* into QUEUED rows with worker_id and processing_started NULL and the
\* timeout message, leaves every other row as it was, and returns the number
\* of rows it changed.
ReleaseExact ==
    [][(result'.op = "release_stale_tasks" /\ result'.error = "") =>
          /\ DOMAIN tasks' = DOMAIN tasks
          /\ \A i \in DOMAIN tasks :
                IF /\ tasks[i].status = "processing"
                   /\ tasks[i].processing_started # NULL
                   /\ tasks[i].processing_started < now - result'.arg
                THEN tasks'[i] = [tasks[i] EXCEPT !.status = "queued",
                                                  !.worker_id = NoWorker,
                                                  !.processing_started = NULL,
                                                  !.message = "timeout"]
                ELSE tasks'[i] = tasks[i]
          /\ result'.value = Cardinality({i \in DOMAIN tasks : tasks'[i] # tasks[i]})]_vars

ReleaseExactWitness ==
    /\ result.op = "release_stale_tasks"
    /\ result.error = ""
    /\ result.value = 1
    /\ \E i, j \in DOMAIN tasks :
          /\ tasks[i].status = "queued" /\ tasks[i].message = "timeout"
          /\ tasks[j].status = "processing" /\ tasks[j].worker_id # NoWorker

\* C14 (SpecStore): after release_stale_tasks(0) has committed, no row that
\* was PROCESSING when it ran is still PROCESSING.
ReleaseAllAtZero ==
    [][(result'.op = "release_stale_tasks" /\ result'.error = "" /\ result'.arg = 0) =>
          \A i \in DOMAIN tasks :
             tasks[i].status = "processing" => tasks'[i].status # "processing"]_vars

\* C15 (SpecStore): a cleanup_stale_processing_tasks call that commits turns
\* exactly the PROCESSING rows into FAILED rows with the restart message,
\* leaves the rows of every other status as they were, and returns the number
\* of rows that were PROCESSING.
CleanupExact ==
    [][(result'.op = "cleanup_stale_processing_tasks" /\ result'.error = "") =>
          /\ DOMAIN tasks' = DOMAIN tasks
          /\ \A i \in DOMAIN tasks :
                IF tasks[i].status = "processing"
                THEN tasks'[i] = [tasks[i] EXCEPT !.status = "failed",
                                                  !.message = "restarted"]
                ELSE tasks'[i] = tasks[i]
          /\ result'.value =
                Cardinality({i \in DOMAIN tasks : tasks[i].status = "processing"})]_vars

\* C20 (SpecStore): create_task with an id the table already holds never
\* commits and leaves every row unchanged; once its INSERT has run (the
\* database was not locked) the call raises the engine's IntegrityError, and
\* the operation is not run again after that error.
CreateDuplicateFails ==
    [][(result'.op = "create_task" /\ result'.arg \in DOMAIN tasks) =>
          /\ tasks' = tasks
          /\ result'.error \in {"IntegrityError", "OperationalError"}
          /\ result'.error = "OperationalError" =>
                \A b \in 1..MaxRetries : result'.outcomes[b] = "locked"
          /\ result'.error = "IntegrityError" =>
                /\ result'.outcomes[result'.attempts] = "integrity"
                /\ \A b \in 1..(result'.attempts - 1) :
                      result'.outcomes[b] = "locked"]_vars

CreateDuplicateWitness ==
    /\ result.op = "create_task"
    /\ result.arg \in 1..MaxStoreRows
    /\ result.error = "IntegrityError"
    /\ result.attempts = 2
    /\ result.outcomes = <<"locked", "integrity", "integrity">>

\* C11 (SpecQueue): tasks are claimed in created_at order: whenever a row
\* goes from QUEUED to PROCESSING, no QUEUED row is older than it, so tasks
\* enqueued with increasing created_at are first claimed in that order.
ClaimedInOrder ==
    [][\A i \in DOMAIN tasks :
          (tasks[i].status = "queued" /\ tasks'[i].status = "processing") =>
             \A j \in DOMAIN tasks :
                tasks[j].status = "queued" =>
                   tasks[i].created_at <= tasks[j].created_at]_vars

ClaimedInOrderWitness ==
    \E i, j \in DOMAIN tasks :
       /\ tasks[i].created_at < tasks[j].created_at
       /\ tasks[i].worker_id # NoWorker
       /\ tasks[j].worker_id # NoWorker
       /\ tasks[i].worker_id # tasks[j].worker_id

\* the cache recheck of worker w found a COMPLETED row with the hash
FoundCached(w) == cached'[w].id # NoTask

\* C16 (SpecQueue): when the cache recheck finds a COMPLETED row with the
\* task's hash whose result_path is set and whose file exists, the worker
\* takes the hit; its one update sets the claimed row COMPLETED with progress
\* 100 and the result_path and s3_url read from that row; and from the hit
\* the worker never goes on to the converter.
CacheHitCompletes ==
    /\ [][\A w \in Workers :
            (pc[w] = "cache" /\ pc'[w] # "cache" /\ FoundCached(w)) =>
               /\ tasks[cached'[w].id].status = "completed"
               /\ tasks[cached'[w].id].file_hash = task[w].file_hash
               /\ cached'[w].result_path = tasks[cached'[w].id].result_path
               /\ cached'[w].s3_url = tasks[cached'[w].id].s3_url
               /\ (cached'[w].result_path # NoPath /\ cached'[w].stat = "exists")
                     => pc'[w] = "cache_hit"]_vars
    /\ [][\A w \in Workers :
            (pc[w] = "cache_hit" /\ pc'[w] = "back") =>
               tasks'[task[w].id] =
                  [tasks[task[w].id] EXCEPT !.status = "completed",
                                            !.progress = 100,
                                            !.result_path = cached[w].result_path,
                                            !.s3_url = cached[w].s3_url,
                                            !.message = "cached"]]_vars
    /\ [][\A w \in Workers :
            pc[w] = "cache_hit" =>
               pc'[w] \in {"cache_hit", "back", "fail", "cancelled"}]_vars

CacheHitWitness ==
    \E w \in Workers :
       /\ pc[w] = "back"
       /\ tasks[task[w].id].status = "completed"
       /\ tasks[task[w].id].message = "cached"
       /\ tasks[task[w].id].s3_url # NoUrl
       /\ tasks[task[w].id].result_path = tasks[cached[w].id].result_path

\* C17 (SpecQueue): when the cache recheck finds a COMPLETED row whose
\* result_path is not set, or whose file is no longer on disk, the claimed
\* task is not completed from the cache: nothing is written and the worker
\* goes on with the normal path (input lookup, then progress 30).
StaleHitIsMiss ==
    [][\A w \in Workers :
          (/\ pc[w] = "cache" /\ pc'[w] # "cache" /\ FoundCached(w)
           /\ \/ cached'[w].result_path \in {NoPath, EmptyPath}
              \/ cached'[w].stat = "missing") =>
             /\ tasks' = tasks
             /\ pc'[w] \in {"p30", "fail"}]_vars

StaleHitWitness ==
    \E w \in Workers :
       /\ pc[w] = "convert"
       /\ cached[w].id # NoTask
       /\ cached[w].stat = "missing"
       /\ tasks[task[w].id].progress = 30

\* C12 (Spec): the progress of a row never goes down from one committed
\* update to the next.
ProgressMonotone ==
    [][\A i \in DOMAIN tasks :
          i \in DOMAIN tasks' => tasks'[i].progress >= tasks[i].progress]_vars

\* C18 (SpecUpload): once a task for some bytes is COMPLETED with its
\* result, enqueuing the same bytes again creates no new row.
EnqueueIdempotent ==
    [][\A u \in Uploads :
          (\E v \in DOMAIN tasks \cap Uploads :
              /\ UploadBytes(v) = UploadBytes(u)
              /\ tasks[v].status = "completed"
              /\ tasks[v].result_path \notin {NoPath, EmptyPath})
          => ~(u \notin DOMAIN tasks /\ u \in DOMAIN tasks')]_vars

\* C19 (SpecUpload): every row the enqueue operation inserts has status
\* QUEUED.
EnqueuedAsQueued ==
    [][\A u \in Uploads :
          (u \notin DOMAIN tasks /\ u \in DOMAIN tasks') =>
             tasks'[u].status = "queued"]_vars

\* C23 (SpecInit): an init_db call that returns leaves the tasks table with
\* the queue columns and indexes and user_version 2; it rewrites 'pending'
\* rows to 'queued', and changes no other row, only when the stored version
\* was below 2; and a second call in a row changes neither the schema, nor
\* the version, nor any row.
InitIdempotent ==
    [][(result'.op = "init_db" /\ result'.error = "" /\ inits' = inits + 1) =>
          /\ schema'.table
          /\ schema'.user_version = TargetSchemaVersion
          /\ QueueColumns \subseteq schema'.columns
          /\ (BaseIndexes \cup QueueIndexes) \subseteq schema'.indexes
          /\ DOMAIN tasks' = DOMAIN tasks
          /\ schema.user_version >= 2 => tasks' = tasks
          /\ schema.user_version < 2 =>
                \A i \in DOMAIN tasks :
                   tasks'[i] = IF tasks[i].status = "pending"
                               THEN [tasks[i] EXCEPT !.status = "queued"]
                               ELSE tasks[i]
          /\ inits >= 1 => (tasks' = tasks /\ schema' = schema)]_vars

InitIdempotentWitness ==
    /\ inits = 2
    /\ result.op = "init_db"
    /\ result.error = ""
    /\ schema = CurrentSchema
    /\ \E i, j \in DOMAIN tasks :
          /\ tasks[i].status = "queued" /\ tasks[i].worker_id = NoWorker
          /\ tasks[j].status = "completed" /\ tasks[j].message = "route_done"

\* C21 (SpecRow): an update_task(id, fields) call that commits writes, on
\* the row with that id, exactly the supplied fields that are in the
\* whitelist, and sets updated_at to the current time; supplied fields
\* outside the whitelist are dropped; no other column of the row and no other
\* row changes, so with no whitelisted field supplied only updated_at changes.
UpdateWritesWhitelist ==
    [][(result'.op = "update_task" /\ result'.error = "") =>
          LET id == result'.arg.task_id
              fields == result'.arg.updates
              written == (DOMAIN fields) \cap
                            {"status", "message", "progress", "result_path", "s3_url",
                             "downloaded", "worker_id", "processing_started",
                             "file_hash"}
          IN /\ DOMAIN tasks' = DOMAIN tasks
             /\ \A j \in (DOMAIN tasks) \ {id} : tasks'[j] = tasks[j]
             /\ id \in DOMAIN tasks =>
                   \A k \in DOMAIN tasks[id] :
                      tasks'[id][k] = IF k = "updated_at" THEN now
                                      ELSE IF k \in written THEN fields[k]
                                      ELSE tasks[id][k]]_vars

UpdateWritesWitness ==
    /\ result.op = "update_task"
    /\ result.error = ""
    /\ "original_filename" \in DOMAIN result.arg.updates
    /\ result.arg.task_id \in DOMAIN tasks
    /\ LET row == tasks[result.arg.task_id]
       IN /\ row.progress = 30
          /\ row.status = "completed"
          /\ row.original_filename = "f"
          /\ row.updated_at = now
    /\ \E j \in DOMAIN tasks : tasks[j].updated_at < now

\* C22 (SpecRow): a store operation called through _with_retry is run again
\* only after a run that failed with 'database is locked', after a sleep that
\* doubles each time (0.1 s, 0.2 s), and at most 3 times in all; when a run succeeds the caller gets its
\* result and no error, and the table is the one a single run of the operation
\* produces; when the third run is locked too the caller gets the error and
\* the table is unchanged.
RetryOnLocked ==
    [][(calls' = calls + 1) =>
          LET r == result' IN
          /\ r.attempts \in 1..3
          /\ r.backoff = CASE r.attempts = 1 -> <<>>
                            [] r.attempts = 2 -> <<1>>
                            [] OTHER -> <<1, 2>>
          /\ \A b \in 1..(r.attempts - 1) : r.outcomes[b] = "locked"
          /\ r.error = "" <=> r.outcomes[r.attempts] = "ok"
          /\ (r.error # "" /\ r.outcomes[r.attempts] = "locked") => r.attempts = 3
          /\ r.error # "" => tasks' = tasks
          /\ r.error = "" =>
                CASE r.op = "update_task" ->
                        /\ DOMAIN tasks' = DOMAIN tasks
                        /\ \A i \in DOMAIN tasks :
                              /\ i # r.arg.task_id => tasks'[i] = tasks[i]
                              /\ i = r.arg.task_id => tasks'[i].updated_at = now
                  [] r.op = "delete_task" ->
                        /\ DOMAIN tasks' = (DOMAIN tasks) \ {r.arg}
                        /\ \A i \in DOMAIN tasks' : tasks'[i] = tasks[i]
                  [] r.op = "cleanup_old_tasks" ->
                        /\ DOMAIN tasks' =
                              {i \in DOMAIN tasks : tasks[i].created_at >= now - r.arg}
                        /\ r.value = (DOMAIN tasks) \ DOMAIN tasks'
                        /\ \A i \in DOMAIN tasks' : tasks'[i] = tasks[i]
                  [] r.op = "get_next_queued_task" ->
                        /\ DOMAIN tasks' = DOMAIN tasks
                        /\ Cardinality({i \in DOMAIN tasks : tasks'[i] # tasks[i]})
                              = IF r.value = NoTask THEN 0 ELSE 1
                        /\ r.value # NoTask =>
                              /\ tasks[r.value].status = "queued"
                              /\ tasks'[r.value].status = "processing"
                              /\ tasks'[r.value].worker_id = r.arg
                  [] OTHER -> TRUE]_vars

RetryOnLockedWitness ==
    /\ calls = 2
    /\ result.op = "delete_task"
    /\ result.error = "OperationalError"
    /\ result.attempts = 3
    /\ \E i \in DOMAIN tasks : tasks[i].status = "processing" /\ tasks[i].updated_at = now
    /\ result.arg \in DOMAIN tasks

\* C29 (SpecRow): when get_next_queued_task has claimed a task and the next
\* store call is the unconditional release of that task (update_task with
\* status 'queued', worker_id and processing_started None, as
\* QueueWorker.stop does), the table is again the one from before the claim
\* in every column of every row, except updated_at of the claimed row.
ClaimReleaseRoundTrip ==
    [][(/\ result.op = "get_next_queued_task" /\ result.error = ""
        /\ result.value # NoTask
        /\ result'.op = "update_task" /\ result'.error = ""
        /\ result'.arg.task_id = result.value
        /\ result'.arg.updates = [status |-> "queued", worker_id |-> NoWorker,
                                  processing_started |-> NULL]) =>
          /\ DOMAIN tasks' = DOMAIN pre
          /\ \A i \in DOMAIN pre : \A k \in DOMAIN pre[i] :
                (i # result.value \/ k # "updated_at") => tasks'[i][k] = pre[i][k]]_vars

ClaimReleaseWitness ==
    /\ calls = 2
    /\ result.op = "update_task"
    /\ result.error = ""
    /\ pre # <<>>
    /\ result.arg.task_id \in DOMAIN tasks
    /\ pre[result.arg.task_id].status = "queued"
    /\ pre[result.arg.task_id].updated_at < now
    /\ tasks[result.arg.task_id].status = "queued"
    /\ tasks[result.arg.task_id].worker_id = NoWorker
    /\ tasks[result.arg.task_id].updated_at = now
    /\ \A i \in DOMAIN tasks : tasks[i].status # "processing"

\* the workers whose convert_to_pdf_with_libreoffice call is in progress
InOfficeStage == {w \in OfficeWorkers : office_pc[w] \in {"lock_wait", "office"}}

\* C24 (SpecOffice): with the semaphore of capacity 2 and more workers than
\* permits all converting bridge formats, at most 2 workers are in the
\* office stage at any instant, and so at most 2 LibreOffice subprocesses.
OfficeCap ==
    /\ Cardinality(InOfficeStage) <= 2
    /\ Cardinality({w \in OfficeWorkers : office_pc[w] = "office"}) <= 2

OfficeCapWitness ==
    /\ Cardinality(InOfficeStage) = 2
    /\ \E w \in OfficeWorkers : office_pc[w] = "office"
    /\ \E w \in OfficeWorkers : office_pc[w] = "sem_wait"
    /\ \A w \in OfficeWorkers : converter[w] = "PdfBridgeConverter"
    /\ semaphore = 0

\* C25 (SpecOffice): the permits of the office-suite semaphore are held
\* only by workers in the office stage: a worker that has gone on to the
\* markdown stage of a bridge conversion holds none.
PermitOnlyInOfficeStage ==
    OfficeConcurrency - semaphore = Cardinality(InOfficeStage)

\* the workers inside `async with self.libreoffice_semaphore`
InGuarded ==
    {w \in OfficeWorkers :
        /\ converter[w] = "PdfBridgeConverter"
        /\ office_pc[w] \in {"lock_wait", "office", "markdown"}}

\* C26 (SpecOffice): the permits taken are always as many as the workers
\* inside the guarded conversion, never more than 2; a conversion that raises
\* gives its permit back like one that returns; so with no worker inside the
\* guarded conversion both permits are free.
PermitsPaired ==
    /\ [](semaphore \in 0..2)
    /\ [](2 - semaphore = Cardinality(InGuarded))
    /\ [](InGuarded = {} => semaphore = 2)
    /\ [][\A w \in OfficeWorkers :
            (w \in InGuarded /\ office_pc'[w] \in {"done", "failed"}) =>
               semaphore' = semaphore + 1]_vars

PermitsPairedWitness ==
    /\ semaphore = 2
    /\ InGuarded = {}
    /\ \E w, v \in OfficeWorkers :
          /\ office_pc[w] = "failed" /\ converter[w] = "PdfBridgeConverter"
          /\ office_pc[v] = "done" /\ converter[v] = "PdfBridgeConverter"

\* a worker that waits for the semaphore or the lock and cannot get it now
Blocked(w) ==
    \/ office_pc[w] = "sem_wait" /\ semaphore <= 0
    \/ office_pc[w] = "lock_wait" /\ libreoffice_lock # NoWorker

\* the workers that want or hold the semaphore or the lock
Contending ==
    {w \in OfficeWorkers :
        /\ converter[w] = "PdfBridgeConverter"
        /\ office_pc[w] \in {"sem_wait", "lock_wait", "office", "markdown"}}

\* C27 (SpecOfficeLive): in no reachable state are all the workers that
\* contend for the semaphore and the lock blocked, and with conversions that
\* end and fair scheduling every worker waiting for the semaphore gets a
\* permit and every worker waiting for the lock gets the lock.
OfficeNoDeadlock ==
    /\ [](Contending # {} => \E w \in Contending : ~Blocked(w))
    /\ \A w \in OfficeWorkers :
          /\ (office_pc[w] = "sem_wait") ~> (office_pc[w] = "lock_wait")
          /\ (office_pc[w] = "lock_wait") ~> (office_pc[w] = "office")

OfficeNoDeadlockWitness ==
    /\ Cardinality({w \in OfficeWorkers : Blocked(w)}) = 2
    /\ \E w \in OfficeWorkers : office_pc[w] = "sem_wait" /\ semaphore = 0
    /\ \E w \in OfficeWorkers : office_pc[w] = "lock_wait" /\ libreoffice_lock # NoWorker
    /\ \E w \in OfficeWorkers : office_pc[w] = "office" /\ libreoffice_lock = w

\* C28 (SpecQueue): after the ZIP is built, an upload that raised or gave no
\* URL does not fail the task: the worker goes on to the update that sets the
\* row COMPLETED with progress 100, the local result_path and s3_url NULL;
\* only that update raising, or the cancellation of the worker, takes it
\* elsewhere.
PublishFailureNonFatal ==
    /\ [][\A w \in Workers :
            (pc[w] = "package" /\ pc'[w] # "package" /\
             s3_upload'[w] \in {"none", "raised"}) => pc'[w] = "persist"]_vars
    /\ [][\A w \in Workers :
            (pc[w] = "persist" /\ s3_upload[w] \in {"none", "raised"}) =>
               \/ pc'[w] = "persist"
               \/ pc'[w] = "cancelled"
               \/ pc'[w] = "fail_inner" /\ faults' = faults + 1
               \/ /\ pc'[w] = "back"
                  /\ tasks'[task[w].id] =
                        [tasks[task[w].id] EXCEPT !.status = "completed",
                                                  !.progress = 100,
                                                  !.result_path = task[w].id,
                                                  !.s3_url = NoUrl,
                                                  !.message = "done"]]_vars

PublishFailureWitness ==
    \E w \in Workers :
       /\ pc[w] = "back"
       /\ s3_upload[w] = "raised"
       /\ tasks[task[w].id].status = "completed"
       /\ tasks[task[w].id].progress = 100
       /\ tasks[task[w].id].result_path = task[w].id
       /\ tasks[task[w].id].s3_url = NoUrl

\* Rows that are PROCESSING under the id of worker w
HeldBy(w) ==
    {i \in DOMAIN tasks : tasks[i].status = "processing" /\ tasks[i].worker_id = w}

\* C30 (SpecQueue): a worker holds at most one claim: at most one row is
\* PROCESSING with worker_id = w, and w is not inside get_next_queued_task
\* while a row it claimed is still PROCESSING under its id.
SingleTasked ==
    \A w \in Workers :
       /\ Cardinality(HeldBy(w)) <= 1
       /\ pc[w] \in {"call", "begun", "selected"} => HeldBy(w) = {}

\* C31 (SpecQueue): file_hash is immutable after insertion: no step changes
\* the file_hash of a row that is in the table.
FileHashImmutable ==
    [][\A i \in (DOMAIN tasks) \cap (DOMAIN tasks') :
          tasks'[i].file_hash = tasks[i].file_hash]_vars

\* C32 (Spec): no step interleaves between a read and the write that depends
\* on it: while a worker holds the answer of its cache recheck and has not
\* written the completion, while QueueWorker.stop has read current_task_id and
\* has not written the release, and while process_conversion has written
\* COMPLETED and not yet the result, nobody else changes the table or the
\* worker state that was read.
NoSuspendedReadWrite ==
    [][/\ \A w \in Workers :
             (pc[w] = "cache_hit" /\ pc'[w] = "cache_hit") => tasks' = tasks
       /\ (stop_pc = "releasing" /\ stop_pc' = "releasing") =>
             (tasks' = tasks /\ current_task_id' = current_task_id)
       /\ \A u \in Uploads :
             (route_pc[u] = "result" /\ route_pc'[u] = "result") => tasks' = tasks]_vars

\* The _release_stale_tasks loops and the worker loops that are still running
AliveStaleLoops == {j \in DOMAIN stale_loops : stale_loops[j] \in Alive}

AliveWorkers == {k \in DOMAIN worker_tasks : worker_tasks[k] \in Alive}

\* One reaper and N workers worker_1..worker_N, pairwise distinct
OnePoolOfLoops ==
    /\ Cardinality(AliveStaleLoops) = 1
    /\ Cardinality(AliveWorkers) = NumWorkers
    /\ \A k1, k2 \in AliveWorkers :
          pool_workers[k1].worker_id = pool_workers[k2].worker_id => k1 = k2

DispatchStatic ==
    \A w \in Workers :
       pc[w] # "dispatch" =>
          LET e == Lower(file_extension[w])
          IN /\ e \in MARKER_FORMATS => converter[w] = "MarkerConverter"
             /\ e \in PDF_BRIDGE_FORMATS => converter[w] = "PdfBridgeConverter"
             /\ e \notin (MARKER_FORMATS \cup PDF_BRIDGE_FORMATS) =>
                   /\ converter[w] = ""
                   /\ tasks[w].progress = 0
                   /\ tasks[w].status \in {"processing", "failed"}
                   /\ pc[w] \in {"fail", "back", "escaped"}

\* C35 (SpecOffice): the event loop is never held for the length of a
\* conversion: while one worker is in the markdown engine's run, a worker
\* that is ready to go on with its next task can take its step.
LoopNeverBlocked ==
    \A w, v \in OfficeWorkers :
       (office_pc[w] = "markdown" /\ office_pc[v] = "idle") => ENABLED GetConverter(v)

IdleWorkerHoldsNothing ==
    /\ [](\A w \in Workers :
             pc[w] \in {"call", "begun", "selected", "ret", "sleep", "escaped"} =>
                current_task_id[w] = NoTask)
    /\ [][(stop_pc = "releasing" /\ stop_pc' = "stopping" /\ stop_i \in Workers) =>
             (InProcess(stop_i) /\ task[stop_i].id = stop_task)]_vars


\* C39 (SpecRow): update_task and delete_task called with an id that has no
\* row (never inserted, or deleted before) leave the table as it was and
\* raise nothing unless the database stayed locked through every retry;
\* no step other than create_task adds an id to the table.
MissingIdChangesNothing ==
    [][/\ (/\ result'.op = "update_task"
           /\ result'.arg.task_id \notin DOMAIN tasks)
          => (/\ tasks' = tasks
              /\ (result'.outcomes[MaxRetries] # "locked" => result'.error = ""))
       /\ (/\ result'.op = "delete_task"
           /\ result'.arg \notin DOMAIN tasks)
          => (/\ tasks' = tasks
              /\ (result'.outcomes[MaxRetries] # "locked" => result'.error = ""))
       /\ (result'.op # "create_task" => DOMAIN tasks' \subseteq DOMAIN tasks)]_vars

\* an update_task that committed for the id of a row deleted before
MissingIdWitness ==
    /\ result.op = "update_task"
    /\ result.arg.task_id \in (1..MaxStoreRows) \ DOMAIN tasks
    /\ result.arg.updates = UpdateInput(1)
    /\ result.error = ""


\* C40 (Spec): an error raised by get_next_queued_task leaves the worker
\* sleeping poll_interval, and a worker that sleeps (after that error or
\* after an error that escaped _process_task) goes back to its next call
\* while running is set; an error raised by release_stale_tasks leaves the
\* reaper sleeping stale_check_interval, and it runs again while the pool
\* is running.  A loop ends only with running cleared by stop, or cancelled
\* by QueueWorkerPool.stop.
LoopsSurviveStoreErrors ==
    [][/\ \A w \in Workers :
            /\ (pc[w] = "call" /\ faults' > faults /\ pc'[w] # pc[w])
                  => pc'[w] = "sleep"
            /\ (pc[w] \in {"sleep", "escaped"} /\ pc'[w] # pc[w])
                  => \/ pc'[w] = "cancelled"
                     \/ pc'[w] = IF running[w] THEN "call" ELSE "exited"
            /\ (pc'[w] = "exited" /\ pc[w] # "exited") => ~running[w]
            /\ (pc'[w] = "cancelled" /\ pc[w] # "cancelled")
                  => (stop_pc = "stopping" /\ stop_pc' = "stopped")
       /\ (reaper_pc = "run" /\ faults' > faults /\ reaper_pc' # reaper_pc)
             => reaper_pc' = "sleep"
       /\ (reaper_pc = "sleep" /\ reaper_pc' # reaper_pc)
             => \/ reaper_pc' = "cancelled"
                \/ reaper_pc' = IF pool_running THEN "run" ELSE "exited"
       /\ (reaper_pc' = "exited" /\ reaper_pc # "exited") => ~pool_running
       /\ (reaper_pc' = "cancelled" /\ reaper_pc # "cancelled")
             => (stop_pc = "stopping" /\ stop_pc' = "stopped")]_vars

\* a store error escaped _process_task (the worker still carries the id of
\* the task it abandoned), the worker slept and is at its next call, and the
\* reaper is at its next run
LoopsSurviveWitness ==
    /\ faults = MaxFaults
    /\ pool_running
    /\ reaper_pc = "run"
    /\ \E w \in Workers :
          /\ pc[w] = "call"
          /\ running[w]
          /\ current_task_id[w] # NoTask

====
